---- MODULE Spec2Model ----
(***************************************************************************)
(* Voice gateway: the per-connection stream handlers of the voice-to-voice *)
(* pipeline (ASR -> LLM -> sentencer -> TTS).                              *)
(*                                                                         *)
(* Two deployments of the stream server exist in the repository and both   *)
(* are modelled; a behaviour runs exactly one of them (chosen by Init):    *)
(*   - the WebSocket handler  VoiceGateway.handle_websocket  (gateway.py)  *)
(*   - the gRPC servicer      VoiceGatewayServicer.StreamAudio (main.py)   *)
(*                                                                         *)
(* Further specifications over the same variables follow the handlers:     *)
(*   - SpecStore:  the session store (create_session, get_session and the  *)
(*     delayed _cleanup_session over the in-process map and the cache)     *)
(*   - SpecPool:   the provider connection pools of the ASR and TTS        *)
(*     services (initialize, acquire, release, close, context manager)     *)
(*   - SpecBridge: the gRPC stream with its tasks, queues and the          *)
(*     recognizer thread of ASRClient.transcribe_stream                    *)
(*   - SpecLlm:    LLMClient.generate of the LLM service with its cache    *)
(*   - SpecLoad:   the load harness (tests/load: main, LoadTestRunner.run) *)
(*   - SpecThreads: the default executor of the event loop, shared by the   *)
(*     recognizer workers and the synthesis calls of concurrent streams    *)
(*   - SpecBuild:  LLMClient._build_messages as a function of its inputs   *)
(*   - SpecSse:    LLMClient.generate_stream reading a response body       *)
(*   - SpecSynth:  TTSClient.synthesize_stream and its worker thread       *)
(*                                                                         *)
(* Text is a sequence of one-character strings.  DANDA stands for U+0964,  *)
(* CYR_R CYR_E CYR_D for the three characters of the literal that main.py  *)
(* holds in the place of the danda.                                        *)
(***************************************************************************)
EXTENDS Integers, Sequences, FiniteSets, TLC

VARIABLES
    pc,                   \* position of the WebSocket handler coroutine
    state,                \* VoiceSession.state ("none" before the session exists)
    conversation_history, \* VoiceSession.conversation_history
    inbox,                \* client frames sent and not yet received by the handler
    alive,                \* the client's end of the transport is open
    sentAudio,            \* audio frames the client has sent so far
    text_buffer,          \* _stream_llm_to_tts: text_buffer
    full_response,        \* _process_audio_stream: full_response
    nchunks,              \* LLM chunks delivered on the connection so far
    naudio,               \* audio chunks TTS has produced on the connection so far
    resume,               \* where the generator continues after a TTS stream
    ttsIdx,               \* audio chunks produced by the TTS stream in progress
    out,                  \* frames emitted since the last client frame was taken
    ttsCalls,             \* texts submitted to TTS for the current turn, in order
    llmRequests,          \* message lists sent to the LLM for the current turn
    live,                 \* turns started and not yet ended
    gpc,                  \* position of the gRPC StreamAudio generator
    result_queue,         \* ASRClient.transcribe_stream: result_queue
    asrPosted,            \* results the ASR worker has posted so far
    asr_done,             \* the ASR worker has posted its end marker
    sentence_buffer,      \* StreamAudio: sentence_buffer
    tts_queue,            \* TTSClient.synthesize_stream: result_queue
    clock,                \* seconds the handler has waited for the config message
    llm_status,           \* HTTP status of the LLM response being read (0: none)
    tts_status,           \* HTTP status of the TTS response being read (0: none)
    session_id,           \* id of the handler's session (0 before create_session)
    sessions,             \* VoiceGateway.sessions: ids in the in-process map
    redis,                \* ids with a session:<id> key in the cache
    cleanup,              \* per id, the position of its _cleanup_session task
    get,                  \* the get_session call in progress
    accessed,             \* ids get_session returned during their grace period
    pool_clients,         \* ConnectionPool._clients
    available,            \* ConnectionPool._available
    initialized,          \* ConnectionPool._initialized
    closing,              \* index close() has reached in _clients (0: no close running)
    closed,               \* clients whose channel has been closed
    created,              \* clients constructed so far
    req,                  \* per requester, its position and the client it holds
    poolLog,              \* calls made so far: initialize runs, closes, repeated releases
    client_stream,        \* the client's end of the gRPC stream: open, half_closed, gone
    request_iterator,     \* requests the client has written and input_processor has not read
    nrequests,            \* audio requests the client has written so far
    first_msg,            \* StreamAudio: first_msg ("unread" until it is taken)
    input_task,           \* StreamAudio: input_task
    input_queue,          \* StreamAudio: input_queue
    fill_task,            \* transcribe_stream: fill_task
    audio_queue,          \* transcribe_stream: audio_queue
    stream_closed,        \* transcribe_stream: stream_closed
    worker,               \* the executor thread running consume_riva_responses
    transcript_queue,     \* transcribe_stream: result_queue, as the worker fills it
    nresults,             \* results the worker has posted so far
    asr_stream,           \* the transcribe_stream generator: off, active, suspended, closed
    handler,              \* position of the StreamAudio generator
    cancels,              \* tasks whose cancel() was called and not yet delivered
    cancelled,            \* the RPC was cancelled (the client went away)
    events,               \* server events StreamAudio has yielded, in order
    llm_redis_client,     \* LLMClient._redis_client is set (False: None)
    llm_cache,            \* the llm_cache:<digest> keys of the cache, with their values
    ttl_passed,           \* a cached reply has expired since the last generate call
    generations,          \* the generate calls made so far, with what they returned
    language,             \* VoiceSession.language of the connection's session
    load_pc,              \* position of the load harness: main, the phases of run, exited
    shutdown_event,       \* LoadTestRunner._shutdown_event is set
    workers,              \* len(LoadTestRunner._workers)
    results,              \* len(ResultsCollector._results)
    success_count,        \* results whose status is "success"
    sigint,               \* SIGINT received: none, early (before run installs its handler), run
    exit_code,            \* what main() returned (-1: nothing yet)
    worker_tasks,         \* LoadTestRunner._worker_tasks: the tasks, by number
    task_state,           \* per worker task: none, running, done, cancelling, cancelled
    executor_queue,       \* calls submitted to the loop's default executor, not yet started
    executing,            \* calls a thread of the default executor is running
    stream_pc,            \* per stream, where its StreamAudio is: idle, asr, tts, closed
    spoken,               \* per stream, the sentences synthesized so far
    build_history,        \* _build_messages: the conversation_history it is called with
    build_turns,          \* settings.max_history_turns at the call
    build_language,       \* _build_messages: the language it is called with
    build_result,         \* what _build_messages returned (<<>>: not called yet)
    sse_body,             \* generate_stream: the lines of the response body
    sse_pos,              \* lines aiter_lines has delivered so far
    yielded,              \* contents generate_stream has yielded so far
    stream_status,        \* generate_stream: off, reading, ended, failed
    synth_sentence,       \* synthesize_stream calls made so far
    synth_worker,         \* run_riva_synthesis: off, running, returned
    synth_produced,       \* audio chunks run_riva_synthesis has posted for the sentence
    synth_queue,          \* synthesize_stream: result_queue
    synth_consumer,       \* synthesize_stream: off, awaiting, consuming, ended, raised
    synth_yielded         \* chunks synthesize_stream has yielded for the sentence

vars == << pc, state, conversation_history, inbox, alive, sentAudio,
           text_buffer, full_response, nchunks, naudio, resume, ttsIdx, out,
           ttsCalls, llmRequests, live, gpc, result_queue, asrPosted, asr_done,
           sentence_buffer, tts_queue, clock, llm_status, tts_status,
           session_id, sessions, redis, cleanup, get, accessed,
           pool_clients, available, initialized, closing, closed, created, req,
           poolLog,
           client_stream, request_iterator, nrequests, first_msg, input_task,
           input_queue, fill_task, audio_queue, stream_closed, worker,
           transcript_queue, nresults, asr_stream, handler, cancels, cancelled,
           events, llm_redis_client, llm_cache, ttl_passed, generations,
           language,
           load_pc, shutdown_event, workers, results, success_count, sigint,
           exit_code, worker_tasks, task_state,
           executor_queue, executing, stream_pc, spoken,
           build_history, build_turns, build_language, build_result,
           sse_body, sse_pos, yielded, stream_status,
           synth_sentence, synth_worker, synth_produced, synth_queue,
           synth_consumer, synth_yielded >>

clientVars == << inbox, alive, sentAudio >>

localVars == << text_buffer, full_response, resume, ttsIdx >>

budgetVars == << nchunks, naudio >>

auxVars == << out, ttsCalls, llmRequests >>

grpcVars == << gpc, result_queue, asrPosted, asr_done, sentence_buffer, tts_queue >>

httpVars == << llm_status, tts_status >>

storeVars == << session_id, sessions, redis, cleanup, get, accessed >>

poolVars == << pool_clients, available, initialized, closing, closed, created, req,
              poolLog >>

\* the ASR bridge of one gRPC stream, from the request iterator to the worker
bridgeVars == << client_stream, request_iterator, nrequests, first_msg, input_task,
                input_queue, fill_task, audio_queue, stream_closed, worker,
                transcript_queue, nresults, asr_stream, handler, cancels, cancelled,
                events >>

\* the LLM service's client and its reply cache
cacheVars == << llm_redis_client, llm_cache, ttl_passed, generations >>

\* the state of the components that are studied on their own
loadVars == << load_pc, shutdown_event, workers, results, success_count, sigint,
              exit_code, worker_tasks, task_state >>

\* the default executor of the event loop and the streams that use it
threadVars == << executor_queue, executing, stream_pc, spoken >>

\* one call of LLMClient._build_messages
buildVars == << build_history, build_turns, build_language, build_result >>

\* one call of LLMClient.generate_stream
sseVars == << sse_body, sse_pos, yielded, stream_status >>

\* the calls of TTSClient.synthesize_stream of one turn
synthVars == << synth_sentence, synth_worker, synth_produced, synth_queue,
                synth_consumer, synth_yielded >>

extraVars == << threadVars, buildVars, sseVars, synthVars >>

serviceVars == << bridgeVars, cacheVars, loadVars, extraVars >>

\* the state of one connection handler of either deployment
gatewayVars == << pc, state, conversation_history, clientVars, localVars, budgetVars,
                  auxVars, live, grpcVars, clock, httpVars, language >>

----------------------------------------------------------------------------
(* Bounds of the model *)

MaxTurns == 2        \* audio frames a client sends on one connection
MaxInbox == 1        \* client frames in flight towards the handler
MaxChunks == 2       \* chunks the LLM delivers on one connection
MaxAudio == 2        \* audio chunks TTS produces on one connection
MaxAsrResults == 2   \* results the recognizer posts on one gRPC stream
MaxSessions == 2     \* sessions the gateway creates
MaxRequesters == 2   \* coroutines that use a provider pool concurrently
MaxInits == 2        \* initialize() calls that find the pool uninitialized
MaxCloses == 1       \* close() calls on a pool
MaxRepeats == 1      \* release() calls for a client that was already released

MaxCalls == 2         \* generate calls made on the LLM client
MaxRequests == 3      \* audio requests a client writes on one gRPC stream
MaxResults == 2       \* results the recognizer returns on one gRPC stream
ChunkSeconds == 1     \* seconds of audio a client puts in one request
MaxUsers == 2         \* max_users of the load test configuration
MaxSamples == 20      \* results the workers record during one load test

\* ConnectionPool.pool_size (settings.grpc_pool_size, default 10), scaled down
pool_size == 2

\* Settings.max_history_turns of the LLM service (default 10), scaled down
max_history_turns == 1

\* asyncio.wait_for(websocket.receive_json(), timeout=10.0)
ConfigTimeout == 10

----------------------------------------------------------------------------
(* Text *)

SPACE == " "
NEWLINE == "\n"
DANDA == "danda"
CYR_R == "cyr_r"
CYR_E == "cyr_e"
CYR_D == "cyr_d"

Whitespace == {SPACE, NEWLINE}

RECURSIVE lstrip(_)
lstrip(s) ==
    IF s = <<>> THEN <<>>
    ELSE IF Head(s) \in Whitespace THEN lstrip(Tail(s)) ELSE s

RECURSIVE rstrip(_)
rstrip(s) ==
    IF s = <<>> THEN <<>>
    ELSE IF s[Len(s)] \in Whitespace THEN rstrip(SubSeq(s, 1, Len(s) - 1)) ELSE s

\* str.strip()
strip(s) == rstrip(lstrip(s))

\* d in s, for a one-character d
CharIn(d, s) == \E i \in 1..Len(s) : s[i] = d

\* index of the first occurrence of the character d in s (0 when absent)
Find(d, s) ==
    IF CharIn(d, s)
    THEN CHOOSE i \in 1..Len(s) : s[i] = d /\ \A j \in 1..(i - 1) : s[j] # d
    ELSE 0

\* sub in s, for a string sub
Contains(sub, s) ==
    \E i \in 1..(Len(s) - Len(sub) + 1) : SubSeq(s, i, i + Len(sub) - 1) = sub

RECURSIVE Concat(_)
Concat(ss) == IF ss = <<>> THEN <<>> ELSE Head(ss) \o Concat(Tail(ss))

----------------------------------------------------------------------------
(* Frames the server emits *)

Frame(type, info, text, sent, idx, final) ==
    [type |-> type, info |-> info, text |-> text, sent |-> sent, idx |-> idx,
     final |-> final]

SessionCreated == Frame("session_created", "", <<>>, 0, 0, FALSE)
Status(info) == Frame("status", info, <<>>, 0, 0, FALSE)
Transcript(t, fin) == Frame("transcript", "", t, 0, 0, fin)
ResponseText(t, fin) == Frame("response_text", "", t, 0, 0, fin)
Audio(k, i) == Frame("audio", "", <<>>, k, i, FALSE)
\* {"type": "error", "message": str(e)}
ErrorFrame(message) == Frame("error", "", << message >>, 0, 0, FALSE)
Control(kind) == Frame(kind, "", <<>>, 0, 0, FALSE)
\* {"type": "language_changed", "language": new_lang}
LanguageChanged(new_lang) == Frame("language_changed", new_lang, <<>>, 0, 0, FALSE)
\* f"Unsupported language: {new_lang}"
UnsupportedLanguage(new_lang) == "Unsupported language: " \o new_lang
Event(type) == Frame("event", type, <<>>, 0, 0, FALSE)
\* ServerEvent(type=ERROR, message=str(e))
ErrorEvent(message) == Frame("event", "ERROR", << message >>, 0, 0, FALSE)
\* websocket.close(code, reason)
CloseFrame(code, reason) == Frame("close", "", << reason >>, 0, code, FALSE)

----------------------------------------------------------------------------
(* Inputs *)

\* transcripts the recognizer may return: empty, blank, and a word
Transcripts == { <<>>, <<SPACE>>, <<"h", "i">> }

\* chunks an LLM reply is made of
ReplyChunks ==
    { <<"a", ".">>, <<SPACE, "b">>, <<NEWLINE>>, <<"a", DANDA>>, <<"a", ".", "b", "?">> }

default_language == "hi-IN"

supported_languages == { "hi-IN", "en-US" }

\* the codes change_language frames ask for: a supported and an unsupported one
RequestedLanguages == { "en-US", "fr-FR" }

\* control frames: ping, clear_history, change_language (written as the code
\* it asks for), and a text frame that is not JSON
ControlKinds == { "ping", "clear_history", "malformed" } \cup RequestedLanguages

\* status codes with which the LLM and TTS services answer a POST
HttpStatuses == { 200, 500 }

\* the body of a non-success response, as one chunk of the response stream
ErrorBody == << "e", "r", "r" >>

\* the chunks aiter_text() yields for a response of the given status
BodyChunks(status) == IF status = 200 THEN ReplyChunks ELSE { ErrorBody }

\* str(e) of the exceptions a provider call or the transport may raise
ExcMessages == { "e1", "e2" }

UserEntry(t) == [role |-> "user", content |-> t]
AssistantEntry(t) == [role |-> "assistant", content |-> t]

----------------------------------------------------------------------------
(* The sentencer of the WebSocket pipeline *)

sentence_delimiters == << DANDA, "?", "!", ".", NEWLINE >>

\* the delimiter the scan `for delimiter in sentence_delimiters` stops at:
\* the first one, in list order, that occurs in the buffer (0: none does)
FoundDelimiter(buf) ==
    IF \E k \in 1..Len(sentence_delimiters) : CharIn(sentence_delimiters[k], buf)
    THEN CHOOSE k \in 1..Len(sentence_delimiters) :
            /\ CharIn(sentence_delimiters[k], buf)
            /\ \A j \in 1..(k - 1) : ~CharIn(sentence_delimiters[j], buf)
    ELSE 0

\* the sentence without its delimiter (parts[0] alone)
SentenceOfNoDelimiter(buf) ==
    SubSeq(buf, 1, Find(sentence_delimiters[FoundDelimiter(buf)], buf) - 1)

\* sentence = parts[0] + delimiter, for parts = text_buffer.split(delimiter, 1)
SentenceOf(buf) ==
    SubSeq(buf, 1, Find(sentence_delimiters[FoundDelimiter(buf)], buf))

\* parts[1]
RemainderOf(buf) ==
    SubSeq(buf, Find(sentence_delimiters[FoundDelimiter(buf)], buf) + 1, Len(buf))

----------------------------------------------------------------------------
(* The session store: the in-process map and the cache *)

SessionIds == 1..MaxSessions

\* uuid.uuid4(): an id no session has had
FreshIds == { sid \in SessionIds : cleanup[sid] = "unborn" }

\* create_session: the session is written to both tiers
CreateSession(sid) ==
    /\ sessions' = sessions \cup { sid }
    /\ redis' = redis \cup { sid }
    /\ cleanup' = [cleanup EXCEPT ![sid] = "unscheduled"]

\* a handler that creates no task on its way out
ScheduleCleanupNever(sid) == cleanup

\* the task finally creates for an existing session
ScheduleCleanup(sid) == [cleanup EXCEPT ![sid] = "sleeping"]

\* no session exists, no call is in progress
StoreIdle ==
    /\ session_id = 0
    /\ sessions = {}
    /\ redis = {}
    /\ cleanup = [sid \in SessionIds |-> "unborn"]
    /\ get = [pc |-> "idle", id |-> 0, data |-> FALSE]
    /\ accessed = {}

Requesters == 1..MaxRequesters

Range(q) == { q[i] : i \in 1..Len(q) }

\* the pool as constructed: no client, an empty queue
PoolIdle ==
    /\ pool_clients = <<>>
    /\ available = <<>>
    /\ initialized = FALSE
    /\ closing = 0
    /\ closed = {}
    /\ created = 0
    /\ req = [r \in Requesters |-> [pc |-> "idle", client |-> 0]]
    /\ poolLog = [inits |-> 0, closes |-> 0, repeats |-> 0]

\* no gRPC stream is open on the bridge
BridgeIdle ==
    /\ client_stream = "open"
    /\ request_iterator = <<>>
    /\ nrequests = 0
    /\ first_msg = "unread"
    /\ input_task = "off"
    /\ input_queue = <<>>
    /\ fill_task = "off"
    /\ audio_queue = <<>>
    /\ stream_closed = FALSE
    /\ worker = "off"
    /\ transcript_queue = <<>>
    /\ nresults = 0
    /\ asr_stream = "off"
    /\ handler = "off"
    /\ cancels = {}
    /\ cancelled = FALSE
    /\ events = <<>>

\* message lists generate is called with: histories of one and of three entries
Histories ==
    { << UserEntry(<<"h", "i">>) >>,
      << UserEntry(<<"h", "i">>), AssistantEntry(<<"a", ".">>), UserEntry(<<"h", "i">>) >> }

\* the codes of the model for which language.startswith("hi") is true
HindiCodes == { "hi-IN", "hi" }

SystemEntry(lang) ==
    [role |-> "system",
     content |-> IF lang \in HindiCodes THEN << "H" >> ELSE << "E" >>]

RECURSIVE LastN(_, _)
\* s[-n:]: the slice from index -n, and index -0 is the start of the list
LastN(s, n) == IF n = 0 \/ Len(s) <= n THEN s ELSE LastN(Tail(s), n)

\* LLMClient._build_messages under settings.max_history_turns = turns
BuildMessagesWith(history, lang, turns) ==
    << SystemEntry(lang) >> \o LastN(history, turns * 2)

\* LLMClient._build_messages
BuildMessages(history, lang) == BuildMessagesWith(history, lang, max_history_turns)

\* message lists the model's calls are made with
MessageLists == { BuildMessages(h, "hi-IN") : h \in Histories }

\* LLMClient._get_cache_key: the prefix and a digest of the dumped messages;
\* the digest is kept as the messages themselves, the lists of the model
\* having distinct digests
CacheKey(messages) == << "llm_cache", messages >>

CacheKeys == { CacheKey(messages) : messages \in MessageLists }

NoEntry == [present |-> FALSE, text |-> <<>>]

\* the LLM client before initialize() has contacted the cache
CacheIdle ==
    /\ llm_redis_client = FALSE
    /\ llm_cache = [k \in CacheKeys |-> NoEntry]
    /\ ttl_passed = FALSE
    /\ generations = <<>>

\* the load harness is not running
LoadIdle ==
    /\ load_pc = "off"
    /\ shutdown_event = FALSE
    /\ workers = 0
    /\ results = 0
    /\ success_count = 0
    /\ sigint = "none"
    /\ exit_code = -1
    /\ worker_tasks = <<>>
    /\ task_state = [id \in 1..MaxUsers |-> "none"]

\* streams that share one event loop
NStreams == 3

Streams == 1..NStreams

\* threads of the loop's default executor (ThreadPoolExecutor(max_workers))
ExecutorThreads == 2

\* sentences a stream has synthesized, at most
MaxSpoken == 2

\* no stream has been opened
ThreadsIdle ==
    /\ executor_queue = <<>>
    /\ executing = {}
    /\ stream_pc = [s \in Streams |-> "idle"]
    /\ spoken = [s \in Streams |-> 0]

\* _build_messages is not under study
BuildIdle ==
    /\ build_history = <<>>
    /\ build_turns = 0
    /\ build_language = "none"
    /\ build_result = <<>>

\* generate_stream is not under study
SseIdle ==
    /\ sse_body = <<>>
    /\ sse_pos = 0
    /\ yielded = <<>>
    /\ stream_status = "off"

\* synthesize_stream is not under study
SynthIdle ==
    /\ synth_sentence = 0
    /\ synth_worker = "off"
    /\ synth_produced = 0
    /\ synth_queue = <<>>
    /\ synth_consumer = "off"
    /\ synth_yielded = <<>>

ExtraIdle == ThreadsIdle /\ BuildIdle /\ SseIdle /\ SynthIdle

ServiceIdle == BridgeIdle /\ CacheIdle /\ LoadIdle /\ ExtraIdle

----------------------------------------------------------------------------
(* The client of the WebSocket connection *)

WsOpen == pc \notin {"off", "accept", "done"}

\* the client sends an audio frame or a control frame
ClientSend ==
    /\ WsOpen /\ alive
    /\ Len(inbox) < MaxInbox
    /\ \/ /\ sentAudio < MaxTurns
          /\ inbox' = Append(inbox, "audio")
          /\ sentAudio' = sentAudio + 1
       \/ /\ \E kind \in ControlKinds : inbox' = Append(inbox, kind)
          /\ UNCHANGED sentAudio
    /\ UNCHANGED << pc, state, conversation_history, alive, localVars, budgetVars,
                    auxVars, live, grpcVars >>
    /\ UNCHANGED clock
    /\ UNCHANGED httpVars
    /\ UNCHANGED storeVars
    /\ UNCHANGED language
    /\ UNCHANGED poolVars
    /\ UNCHANGED serviceVars

\* the client closes the transport
ClientDisconnect ==
    /\ pc \notin {"off", "done"} /\ alive
    /\ alive' = FALSE
    /\ UNCHANGED << pc, state, conversation_history, inbox, sentAudio,
                    localVars, budgetVars, auxVars, live, grpcVars >>
    /\ UNCHANGED clock
    /\ UNCHANGED httpVars
    /\ UNCHANGED storeVars
    /\ UNCHANGED language
    /\ UNCHANGED poolVars
    /\ UNCHANGED serviceVars

----------------------------------------------------------------------------
(* VoiceGateway.handle_websocket and the turn pipeline *)

ResetLocals ==
    /\ text_buffer' = <<>>
    /\ full_response' = <<>>
    /\ resume' = "none"
    /\ ttsIdx' = 0

\* a send on a closed transport raises inside _process_audio_stream; the
\* handler's own send of the error frame raises too, and the exception leaves
\* the turn for handle_websocket
WsSendFails ==
    /\ pc' = "raise"
    /\ live' = live - 1
    /\ ResetLocals
    /\ llm_status' = 0
    /\ tts_status' = 0

\* an exception handler that takes the turn's user entry back
WsExceptRollback(e) ==
    /\ IF alive
       THEN /\ out' = Append(out, ErrorFrame(e))
            /\ state' = "IDLE"
            /\ pc' = "loop"
       ELSE /\ pc' = "raise"
            /\ UNCHANGED << out, state >>
    /\ live' = live - 1
    /\ ResetLocals
    /\ llm_status' = 0
    /\ tts_status' = 0
    /\ conversation_history' =
          SubSeq(conversation_history, 1, Len(conversation_history) - 1)
    /\ UNCHANGED << clientVars, budgetVars, ttsCalls, llmRequests, grpcVars >>

\* except Exception in _process_audio_stream
WsExcept(e) ==
    /\ IF alive
       THEN /\ out' = Append(out, ErrorFrame(e))
            /\ state' = "IDLE"
            /\ pc' = "loop"
       ELSE /\ pc' = "raise"
            /\ UNCHANGED << out, state >>
    /\ live' = live - 1
    /\ ResetLocals
    /\ llm_status' = 0
    /\ tts_status' = 0
    /\ UNCHANGED << conversation_history, clientVars, budgetVars, ttsCalls,
                    llmRequests, grpcVars >>

\* the config message arrives: create_session, session_created
WsConfig ==
    /\ pc = "accept" /\ alive
    /\ clock < ConfigTimeout
    /\ clock' = 0
    /\ LET sid == CHOOSE sid \in FreshIds : \A other \in FreshIds : sid <= other IN
          /\ session_id' = sid
          /\ CreateSession(sid)
    /\ UNCHANGED << get, accessed >>
    /\ state' = "INITIALIZED"
    /\ language' = default_language
    /\ conversation_history' = <<>>
    /\ out' = << SessionCreated >>
    /\ pc' = "loop"
    /\ UNCHANGED << clientVars, localVars, budgetVars, ttsCalls, llmRequests, live,
                    grpcVars >>
    /\ UNCHANGED httpVars
    /\ UNCHANGED poolVars
    /\ UNCHANGED serviceVars

\* the config message arrives and the setex of create_session raises: the
\* session is already in self.sessions, nothing is written to the cache, the
\* handler's session is still None, so the connection is closed with the
\* exception's text and finally does nothing
WsConfigCacheFails ==
    /\ pc = "accept" /\ alive
    /\ clock < ConfigTimeout
    /\ LET sid == CHOOSE sid \in FreshIds : \A other \in FreshIds : sid <= other IN
          /\ sessions' = sessions \cup { sid }
          /\ cleanup' = [cleanup EXCEPT ![sid] = "unscheduled"]
    /\ \E e \in ExcMessages : out' = << CloseFrame(4001, e) >>
    /\ pc' = "done"
    /\ UNCHANGED << state, conversation_history, clientVars, localVars, budgetVars,
                    ttsCalls, llmRequests, live, grpcVars, clock >>
    /\ UNCHANGED << session_id, redis, get, accessed >>
    /\ UNCHANGED httpVars
    /\ UNCHANGED language
    /\ UNCHANGED poolVars
    /\ UNCHANGED serviceVars

\* the config message arrives and the client goes away: the session is
\* created and the send of session_created raises, which leaves the try
\* block for the handlers and finally
WsConfigSendFails ==
    /\ pc = "accept" /\ alive
    /\ clock < ConfigTimeout
    /\ clock' = 0
    /\ alive' = FALSE
    /\ LET sid == CHOOSE sid \in FreshIds : \A other \in FreshIds : sid <= other IN
          /\ session_id' = sid
          /\ CreateSession(sid)
    /\ state' = "INITIALIZED"
    /\ language' = default_language
    /\ conversation_history' = <<>>
    /\ out' = <<>>
    /\ pc' = "raise"
    /\ UNCHANGED << inbox, sentAudio, localVars, budgetVars, ttsCalls, llmRequests,
                    live, grpcVars >>
    /\ UNCHANGED << get, accessed >>
    /\ UNCHANGED httpVars
    /\ UNCHANGED poolVars
    /\ UNCHANGED serviceVars

\* a second passes while receive_json() is awaited under wait_for
WsWaitConfig ==
    /\ pc = "accept" /\ alive
    /\ clock < ConfigTimeout
    /\ clock' = clock + 1
    /\ UNCHANGED << pc, state, conversation_history, clientVars, localVars, budgetVars,
                    auxVars, live, grpcVars >>
    /\ UNCHANGED httpVars
    /\ UNCHANGED storeVars
    /\ UNCHANGED language
    /\ UNCHANGED poolVars
    /\ UNCHANGED serviceVars

\* except asyncio.TimeoutError: close(code=4000, reason="Config timeout");
\* session is None, so finally does nothing
WsConfigTimeout ==
    /\ pc = "accept" /\ alive
    /\ clock = ConfigTimeout
    /\ out' = << CloseFrame(4000, "Config timeout") >>
    /\ pc' = "done"
    /\ UNCHANGED << state, conversation_history, clientVars, localVars, budgetVars,
                    ttsCalls, llmRequests, live, grpcVars, clock >>
    /\ UNCHANGED httpVars
    /\ UNCHANGED storeVars
    /\ UNCHANGED language
    /\ UNCHANGED poolVars
    /\ UNCHANGED serviceVars

\* the client goes away before it sent a config: no session is created
WsNoConfig ==
    /\ pc = "accept" /\ ~alive
    /\ pc' = "done"
    /\ UNCHANGED << state, conversation_history, clientVars, localVars, budgetVars,
                    auxVars, live, grpcVars >>
    /\ UNCHANGED clock
    /\ UNCHANGED httpVars
    /\ UNCHANGED storeVars
    /\ UNCHANGED language
    /\ UNCHANGED poolVars
    /\ UNCHANGED serviceVars

\* a handler that takes the next client frame while a turn is still running
WsCanReceiveAnytime == pc \in {"loop", "asr", "llm", "tts"}

\* the handler is at `message = await websocket.receive()`
WsCanReceive == pc = "loop"

\* _process_audio_stream up to the ASR call
WsBeginTurn ==
    /\ state' = "LISTENING"
    /\ ttsCalls' = <<>>
    /\ llmRequests' = <<>>
    /\ ResetLocals
    /\ IF alive
       THEN /\ out' = << Status("processing/asr") >>
            /\ pc' = "asr"
            /\ live' = live + 1
       ELSE /\ out' = <<>>
            /\ pc' = "raise"
            /\ live' = live
    /\ UNCHANGED << conversation_history, language >>

\* a handler that leaves the history as it is
HistoryAfterKeep(kind, history) == history

\* session.conversation_history.clear()
HistoryAfter(kind, history) == IF kind = "clear_history" THEN <<>> ELSE history

\* a handler that takes every requested code
LanguageAfterAny(kind, lang) == IF kind \in RequestedLanguages THEN kind ELSE lang

\* if new_lang in settings.supported_languages: session.language = new_lang
LanguageAfter(kind, lang) == IF kind \in supported_languages THEN kind ELSE lang

\* the frame _handle_control_message answers with
ControlReply(kind) ==
    CASE kind = "ping" -> Control("pong")
      [] kind = "clear_history" -> Control("history_cleared")
      [] kind \in supported_languages -> LanguageChanged(kind)
      [] OTHER -> ErrorFrame(UnsupportedLanguage(kind))

\* json.loads(message["text"]) and _handle_control_message
WsControl(kind) ==
    /\ conversation_history' = HistoryAfter(kind, conversation_history)
    /\ language' = LanguageAfter(kind, language)
    /\ IF alive /\ kind # "malformed"
       THEN /\ out' = << ControlReply(kind) >>
            /\ pc' = pc
       ELSE /\ out' = <<>>
            /\ pc' = "raise"
    /\ ttsCalls' = <<>>
    /\ llmRequests' = <<>>
    /\ UNCHANGED << state, localVars, live >>

\* one round of the main message loop
WsReceive ==
    /\ WsCanReceive
    /\ inbox # <<>>
    /\ inbox' = Tail(inbox)
    /\ IF Head(inbox) = "audio" THEN WsBeginTurn ELSE WsControl(Head(inbox))
    /\ UNCHANGED << alive, sentAudio, budgetVars, grpcVars >>
    /\ UNCHANGED clock
    /\ UNCHANGED httpVars
    /\ UNCHANGED storeVars
    /\ UNCHANGED poolVars
    /\ UNCHANGED serviceVars

\* _stream_to_asr returns a transcript
WsAsrReturn ==
    /\ pc = "asr"
    /\ \E t \in Transcripts :
          IF strip(t) = <<>>
          THEN \* Empty transcript, skipping
               /\ pc' = "loop"
               /\ live' = live - 1
               /\ ResetLocals
               /\ UNCHANGED << state, conversation_history, auxVars, httpVars >>
          ELSE /\ conversation_history' = Append(conversation_history, UserEntry(t))
               /\ IF alive
                  THEN /\ state' = "PROCESSING"
                       /\ out' = out \o << Transcript(t, TRUE), Status("processing/llm") >>
                       /\ llmRequests' =
                             Append(llmRequests, conversation_history')
                       /\ pc' = "llm"
                       /\ ResetLocals
                       /\ \E status \in HttpStatuses : llm_status' = status
                       /\ UNCHANGED << ttsCalls, live, tts_status >>
                  ELSE /\ WsSendFails
                       /\ UNCHANGED << state, auxVars >>
    /\ UNCHANGED << clientVars, budgetVars, grpcVars >>
    /\ UNCHANGED clock
    /\ UNCHANGED storeVars
    /\ UNCHANGED language
    /\ UNCHANGED poolVars
    /\ UNCHANGED serviceVars

\* _stream_to_asr raises
WsAsrError ==
    /\ pc = "asr"
    /\ \E e \in ExcMessages : WsExcept(e)
    /\ UNCHANGED clock
    /\ UNCHANGED storeVars
    /\ UNCHANGED language
    /\ UNCHANGED poolVars
    /\ UNCHANGED serviceVars

\* a pipeline that falls back to PROCESSING on every text chunk
StateOnItemBackward(isAudio, st) == IF isAudio THEN "SPEAKING" ELSE "PROCESSING"

\* session.state after an item (audio_chunk, text_chunk) of _stream_llm_to_tts
StateOnItem(isAudio, st) == IF isAudio THEN "SPEAKING" ELSE st

\* full_response = text_chunk
AccumulateOverwrite(full, text_chunk) == text_chunk

\* full_response += text_chunk
Accumulate(full, text_chunk) == full \o text_chunk

\* _stream_tts(session, text) is entered from position `back` of the generator
WsSubmitTts(text, back) ==
    IF text = <<>>
    THEN \* `if not text: return`
         /\ pc' = back
         /\ UNCHANGED << ttsCalls, resume, ttsIdx, tts_status >>
    ELSE /\ ttsCalls' = Append(ttsCalls, text)
         /\ \E status \in HttpStatuses : tts_status' = status
         /\ resume' = back
         /\ ttsIdx' = 0
         /\ pc' = "tts"

\* Add assistant response to history, send completion, go idle
WsComplete ==
    /\ conversation_history' =
          Append(conversation_history, AssistantEntry(full_response))
    /\ IF alive
       THEN /\ out' = out \o << ResponseText(<<>>, TRUE), Status("idle") >>
            /\ state' = "IDLE"
            /\ pc' = "loop"
            /\ live' = live - 1
            /\ ResetLocals
            /\ llm_status' = 0
            /\ tts_status' = 0
       ELSE /\ WsSendFails
            /\ UNCHANGED << out, state >>
    /\ UNCHANGED << ttsCalls, llmRequests >>

\* the LLM stream delivers a chunk
WsLlmChunk ==
    /\ pc = "llm"
    /\ nchunks < MaxChunks
    /\ nchunks' = nchunks + 1
    /\ \E chunk \in BodyChunks(llm_status) :
          LET buf == text_buffer \o chunk IN
          IF alive
          THEN /\ full_response' = Accumulate(full_response, chunk)
               /\ out' = Append(out, ResponseText(chunk, FALSE))
               /\ state' = StateOnItem(FALSE, state)
               /\ IF FoundDelimiter(buf) # 0
                  THEN /\ text_buffer' = RemainderOf(buf)
                       /\ WsSubmitTts(strip(SentenceOf(buf)), "llm")
                  ELSE /\ text_buffer' = buf
                       /\ pc' = "llm"
                       /\ UNCHANGED << ttsCalls, resume, ttsIdx, tts_status >>
               /\ UNCHANGED << live, llm_status >>
          ELSE /\ WsSendFails
               /\ UNCHANGED << out, state, ttsCalls >>
    /\ UNCHANGED << conversation_history, clientVars, naudio, llmRequests, grpcVars >>
    /\ UNCHANGED clock
    /\ UNCHANGED storeVars
    /\ UNCHANGED language
    /\ UNCHANGED poolVars
    /\ UNCHANGED serviceVars

\* the LLM stream ends: Process any remaining text
WsLlmEnd ==
    /\ pc = "llm"
    /\ IF strip(text_buffer) # <<>>
       THEN /\ WsSubmitTts(strip(text_buffer), "end")
            /\ UNCHANGED << conversation_history, state, out, llmRequests, live,
                            text_buffer, full_response, llm_status >>
       ELSE WsComplete
    /\ UNCHANGED << clientVars, budgetVars, grpcVars >>
    /\ UNCHANGED clock
    /\ UNCHANGED storeVars
    /\ UNCHANGED language
    /\ UNCHANGED poolVars
    /\ UNCHANGED serviceVars

\* the LLM request or stream raises
WsLlmError ==
    /\ pc = "llm"
    /\ \E e \in ExcMessages : WsExcept(e)
    /\ UNCHANGED clock
    /\ UNCHANGED storeVars
    /\ UNCHANGED language
    /\ UNCHANGED poolVars
    /\ UNCHANGED serviceVars

\* the TTS stream delivers an audio chunk
WsTtsChunk ==
    /\ pc = "tts"
    /\ naudio < MaxAudio
    /\ naudio' = naudio + 1
    /\ state' = StateOnItem(TRUE, state)
    /\ IF alive
       THEN /\ out' = Append(out, Audio(Len(ttsCalls), ttsIdx + 1))
            /\ ttsIdx' = ttsIdx + 1
            /\ UNCHANGED << pc, live, text_buffer, full_response, resume, httpVars >>
       ELSE /\ WsSendFails
            /\ UNCHANGED out
    /\ UNCHANGED << conversation_history, clientVars, nchunks, ttsCalls, llmRequests,
                    grpcVars >>
    /\ UNCHANGED clock
    /\ UNCHANGED storeVars
    /\ UNCHANGED language
    /\ UNCHANGED poolVars
    /\ UNCHANGED serviceVars

\* the TTS stream ends
WsTtsEnd ==
    /\ pc = "tts"
    /\ IF resume = "llm"
       THEN /\ pc' = "llm"
            /\ tts_status' = 0
            /\ UNCHANGED << conversation_history, state, auxVars, live, localVars,
                            llm_status >>
       ELSE WsComplete
    /\ UNCHANGED << clientVars, budgetVars, grpcVars >>
    /\ UNCHANGED clock
    /\ UNCHANGED storeVars
    /\ UNCHANGED language
    /\ UNCHANGED poolVars
    /\ UNCHANGED serviceVars

\* the TTS request or stream raises
WsTtsError ==
    /\ pc = "tts"
    /\ \E e \in ExcMessages : WsExcept(e)
    /\ UNCHANGED clock
    /\ UNCHANGED storeVars
    /\ UNCHANGED language
    /\ UNCHANGED poolVars
    /\ UNCHANGED serviceVars

\* the transport is closed while the handler waits in receive(), or an
\* exception left the message loop: finally, session.state = CLOSED
WsClose ==
    /\ \/ pc = "raise"
       \/ pc = "loop" /\ inbox = <<>> /\ ~alive
    /\ IF alive
       THEN \* except Exception: websocket.close(code=4001, reason=str(e))
            \E e \in ExcMessages : out' = Append(out, CloseFrame(4001, e))
       ELSE \* nothing can be sent: the close raises, or WebSocketDisconnect
            out' = out
    /\ state' = "CLOSED"
    /\ cleanup' = ScheduleCleanup(session_id)
    /\ pc' = "done"
    /\ UNCHANGED << conversation_history, clientVars, localVars, budgetVars,
                    ttsCalls, llmRequests, live, grpcVars >>
    /\ UNCHANGED << session_id, sessions, redis, get, accessed >>
    /\ UNCHANGED clock
    /\ UNCHANGED httpVars
    /\ UNCHANGED language
    /\ UNCHANGED poolVars
    /\ UNCHANGED serviceVars

WsNext ==
    \/ ClientSend
    \/ ClientDisconnect
    \/ WsConfig
    \/ WsConfigCacheFails
    \/ WsConfigSendFails
    \/ WsWaitConfig
    \/ WsConfigTimeout
    \/ WsNoConfig
    \/ WsReceive
    \/ WsAsrReturn
    \/ WsAsrError
    \/ WsLlmChunk
    \/ WsLlmEnd
    \/ WsLlmError
    \/ WsTtsChunk
    \/ WsTtsEnd
    \/ WsTtsError
    \/ WsClose

InitWs ==
    /\ pc = "accept"
    /\ state = "none"
    /\ language = "none"
    /\ conversation_history = <<>>
    /\ inbox = <<>>
    /\ alive = TRUE
    /\ sentAudio = 0
    /\ text_buffer = <<>>
    /\ full_response = <<>>
    /\ nchunks = 0
    /\ naudio = 0
    /\ resume = "none"
    /\ ttsIdx = 0
    /\ out = <<>>
    /\ ttsCalls = <<>>
    /\ llmRequests = <<>>
    /\ live = 0
    /\ gpc = "off"
    /\ result_queue = <<>>
    /\ asrPosted = 0
    /\ asr_done = FALSE
    /\ sentence_buffer = <<>>
    /\ tts_queue = <<>>
    /\ clock = 0
    /\ llm_status = 0
    /\ tts_status = 0
    /\ StoreIdle
    /\ PoolIdle
    /\ ServiceIdle

----------------------------------------------------------------------------
(* VoiceGatewayServicer.StreamAudio and the provider bridges it drives *)

\* results the ASR worker forwards (`if transcript:` drops the empty ones):
\* an interim result, a final one, and a final one that is blank
AsrResults == { << <<"h", "i">>, FALSE >>, << <<"h", "i">>, TRUE >>, << <<SPACE>>, TRUE >> }

\* the terminators of `any(p in text_chunk for p in [...])`
grpc_delimiters == << <<".">>, <<"?">>, <<"!">>, <<CYR_R, CYR_E, CYR_D>>, <<NEWLINE>> >>

HasDelimiter(text_chunk) ==
    \E k \in 1..Len(grpc_delimiters) : Contains(grpc_delimiters[k], text_chunk)

AsrItem(t, fin) == [kind |-> "result", transcript |-> t, is_final |-> fin, idx |-> 0]
AudioItem(i) == [kind |-> "audio", transcript |-> <<>>, is_final |-> FALSE, idx |-> i]
ExcItem == [kind |-> "exception", transcript |-> <<>>, is_final |-> FALSE, idx |-> 0]
NoneItem == [kind |-> "none", transcript |-> <<>>, is_final |-> FALSE, idx |-> 0]

\* a bridge that hands the chunks over last-in first-out
SynthesisQueueReversed(n, failed) ==
    [i \in 1..n |-> AudioItem(n + 1 - i)]
        \o (IF failed THEN << ExcItem >> ELSE <<>>)
        \o << NoneItem >>

\* what run_riva_synthesis leaves in the queue: the audio chunks in the order
\* produced, the exception if one was raised, and the end marker
SynthesisQueue(n, failed) ==
    [i \in 1..n |-> AudioItem(i)]
        \o (IF failed THEN << ExcItem >> ELSE <<>>)
        \o << NoneItem >>

\* frames of the turn in progress: a result taken after the LISTENING event
\* that ended a turn opens the next one
TurnOut == IF out # <<>> /\ out[Len(out)] = Event("LISTENING") THEN <<>> ELSE out

\* the stream's first message is a config: clients are built, LISTENING is sent
GConfig ==
    /\ gpc = "config"
    /\ clock' = 0
    /\ out' = << Event("LISTENING") >>
    /\ gpc' = "asr"
    /\ UNCHANGED << pc, state, conversation_history, clientVars, localVars,
                    budgetVars, ttsCalls, llmRequests, live, result_queue,
                    asrPosted, asr_done, sentence_buffer, tts_queue >>
    /\ UNCHANGED httpVars
    /\ UNCHANGED storeVars
    /\ UNCHANGED language
    /\ UNCHANGED poolVars
    /\ UNCHANGED serviceVars

\* a second passes while `await input_queue.get()` waits for the first message;
\* the wait has no timeout (the model follows it one second past ConfigTimeout)
GWaitConfig ==
    /\ gpc = "config"
    /\ clock <= ConfigTimeout
    /\ clock' = clock + 1
    /\ UNCHANGED << pc, state, conversation_history, clientVars, localVars,
                    budgetVars, auxVars, live, grpcVars >>
    /\ UNCHANGED httpVars
    /\ UNCHANGED storeVars
    /\ UNCHANGED language
    /\ UNCHANGED poolVars
    /\ UNCHANGED serviceVars

\* consume_riva_responses posts a recognition result
GAsrPost ==
    /\ gpc \notin {"off", "config", "done"}
    /\ ~asr_done
    /\ asrPosted < MaxAsrResults
    /\ \E r \in AsrResults :
          result_queue' = Append(result_queue, AsrItem(r[1], r[2]))
    /\ asrPosted' = asrPosted + 1
    /\ UNCHANGED << pc, state, conversation_history, clientVars, localVars,
                    budgetVars, auxVars, live, gpc, asr_done, sentence_buffer,
                    tts_queue >>
    /\ UNCHANGED clock
    /\ UNCHANGED httpVars
    /\ UNCHANGED storeVars
    /\ UNCHANGED language
    /\ UNCHANGED poolVars
    /\ UNCHANGED serviceVars

\* consume_riva_responses ends (responses exhausted, or an exception that it
\* logs): finally, the end marker is posted
GAsrFinish ==
    /\ gpc \notin {"off", "config", "done"}
    /\ ~asr_done
    /\ result_queue' = Append(result_queue, NoneItem)
    /\ asr_done' = TRUE
    /\ UNCHANGED << pc, state, conversation_history, clientVars, localVars,
                    budgetVars, auxVars, live, gpc, asrPosted, sentence_buffer,
                    tts_queue >>
    /\ UNCHANGED clock
    /\ UNCHANGED httpVars
    /\ UNCHANGED storeVars
    /\ UNCHANGED language
    /\ UNCHANGED poolVars
    /\ UNCHANGED serviceVars

\* the generator is at `async for transcript, is_final in asr_stream`
GCanTake == gpc = "asr"

\* the next ASR result is taken from the bridge
GAsrTake ==
    /\ GCanTake
    /\ result_queue # <<>>
    /\ result_queue' = Tail(result_queue)
    /\ LET item == Head(result_queue) IN
       CASE item.kind = "none" ->
               \* the transcript stream ends; finally: END_OF_TURN
               /\ out' = Append(out, Event("END_OF_TURN"))
               /\ gpc' = "done"
               /\ UNCHANGED << ttsCalls, llmRequests, live, sentence_buffer >>
         [] item.kind = "result" /\ ~item.is_final ->
               /\ out' = Append(TurnOut, Transcript(item.transcript, FALSE))
               /\ ttsCalls' = IF TurnOut = <<>> THEN <<>> ELSE ttsCalls
               /\ llmRequests' = IF TurnOut = <<>> THEN <<>> ELSE llmRequests
               /\ UNCHANGED << gpc, live, sentence_buffer >>
         [] item.kind = "result" /\ item.is_final ->
               /\ out' = TurnOut \o << Transcript(item.transcript, TRUE),
                                       Event("PROCESSING") >>
               /\ ttsCalls' = <<>>
               /\ llmRequests' = << << UserEntry(item.transcript) >> >>
               /\ sentence_buffer' = <<>>
               /\ live' = live + 1
               /\ gpc' = "llm"
    /\ UNCHANGED << pc, state, conversation_history, clientVars, localVars,
                    budgetVars, asrPosted, asr_done, tts_queue >>
    /\ UNCHANGED clock
    /\ UNCHANGED httpVars
    /\ UNCHANGED storeVars
    /\ UNCHANGED language
    /\ UNCHANGED poolVars
    /\ UNCHANGED serviceVars

\* tts_client.synthesize_stream(to_speak) is entered from position `back`:
\* the synthesis worker runs to its end before the first chunk is yielded
GSubmitTts(to_speak, back) ==
    /\ ttsCalls' = Append(ttsCalls, to_speak)
    /\ \E n \in 0..(MaxAudio - naudio), failed \in BOOLEAN :
          /\ tts_queue' = SynthesisQueue(n, failed)
          /\ naudio' = naudio + n
    /\ resume' = back
    /\ gpc' = "tts"

\* except Exception: the ERROR event; finally: END_OF_TURN
GExcept(e) ==
    /\ out' = out \o << ErrorEvent(e), Event("END_OF_TURN") >>
    /\ gpc' = "done"
    /\ live' = live - 1

\* the turn's reply is complete: the LISTENING event
GTurnDone ==
    /\ out' = Append(out, Event("LISTENING"))
    /\ gpc' = "asr"
    /\ live' = live - 1

\* the LLM stream delivers a chunk
GLlmChunk ==
    /\ gpc = "llm"
    /\ nchunks < MaxChunks
    /\ nchunks' = nchunks + 1
    /\ \E text_chunk \in ReplyChunks :
          LET buf == sentence_buffer \o text_chunk IN
          IF HasDelimiter(text_chunk)
          THEN IF strip(buf) # <<>>
               THEN /\ out' = out \o << ResponseText(text_chunk, FALSE),
                                        Event("SPEAKING") >>
                    /\ sentence_buffer' = buf
                    /\ GSubmitTts(strip(buf), "llm")
               ELSE /\ out' = Append(out, ResponseText(text_chunk, FALSE))
                    /\ sentence_buffer' = <<>>
                    /\ UNCHANGED << gpc, ttsCalls, tts_queue, resume, naudio >>
          ELSE /\ out' = Append(out, ResponseText(text_chunk, FALSE))
               /\ sentence_buffer' = buf
               /\ UNCHANGED << gpc, ttsCalls, tts_queue, resume, naudio >>
    /\ UNCHANGED << pc, state, conversation_history, clientVars, text_buffer,
                    full_response, ttsIdx, llmRequests, live, result_queue,
                    asrPosted, asr_done >>
    /\ UNCHANGED clock
    /\ UNCHANGED httpVars
    /\ UNCHANGED storeVars
    /\ UNCHANGED language
    /\ UNCHANGED poolVars
    /\ UNCHANGED serviceVars

\* the LLM stream ends: Process remaining buffer
GLlmEnd ==
    /\ gpc = "llm"
    /\ IF strip(sentence_buffer) # <<>>
       THEN /\ GSubmitTts(strip(sentence_buffer), "end")
            /\ UNCHANGED << out, live >>
       ELSE /\ GTurnDone
            /\ UNCHANGED << ttsCalls, tts_queue, resume, naudio >>
    /\ UNCHANGED << pc, state, conversation_history, clientVars, text_buffer,
                    full_response, nchunks, ttsIdx, llmRequests, result_queue,
                    asrPosted, asr_done, sentence_buffer >>
    /\ UNCHANGED clock
    /\ UNCHANGED httpVars
    /\ UNCHANGED storeVars
    /\ UNCHANGED language
    /\ UNCHANGED poolVars
    /\ UNCHANGED serviceVars

\* generate_response raises
GLlmError ==
    /\ gpc = "llm"
    /\ \E e \in ExcMessages : GExcept(e)
    /\ UNCHANGED << pc, state, conversation_history, clientVars, localVars,
                    budgetVars, ttsCalls, llmRequests, result_queue, asrPosted,
                    asr_done, sentence_buffer, tts_queue >>
    /\ UNCHANGED clock
    /\ UNCHANGED httpVars
    /\ UNCHANGED storeVars
    /\ UNCHANGED language
    /\ UNCHANGED poolVars
    /\ UNCHANGED serviceVars

\* synthesize_stream takes the next item of its queue
GTtsTake ==
    /\ gpc = "tts"
    /\ tts_queue # <<>>
    /\ LET item == Head(tts_queue) IN
       CASE item.kind = "audio" ->
               /\ out' = Append(out, Audio(Len(ttsCalls), item.idx))
               /\ tts_queue' = Tail(tts_queue)
               /\ UNCHANGED << gpc, live, sentence_buffer >>
         [] item.kind = "exception" ->
               /\ \E e \in ExcMessages : GExcept(e)
               /\ tts_queue' = <<>>
               /\ UNCHANGED sentence_buffer
         [] item.kind = "none" ->
               /\ tts_queue' = <<>>
               /\ IF resume = "llm"
                  THEN /\ sentence_buffer' = <<>>
                       /\ gpc' = "llm"
                       /\ UNCHANGED << out, live >>
                  ELSE /\ GTurnDone
                       /\ UNCHANGED sentence_buffer
    /\ UNCHANGED << pc, state, conversation_history, clientVars, localVars,
                    budgetVars, ttsCalls, llmRequests, result_queue, asrPosted,
                    asr_done >>
    /\ UNCHANGED clock
    /\ UNCHANGED httpVars
    /\ UNCHANGED storeVars
    /\ UNCHANGED language
    /\ UNCHANGED poolVars
    /\ UNCHANGED serviceVars

GrpcNext ==
    \/ GConfig
    \/ GWaitConfig
    \/ GAsrPost
    \/ GAsrFinish
    \/ GAsrTake
    \/ GLlmChunk
    \/ GLlmEnd
    \/ GLlmError
    \/ GTtsTake

InitGrpc ==
    /\ pc = "off"
    /\ state = "none"
    /\ language = "none"
    /\ conversation_history = <<>>
    /\ inbox = <<>>
    /\ alive = TRUE
    /\ sentAudio = 0
    /\ text_buffer = <<>>
    /\ full_response = <<>>
    /\ nchunks = 0
    /\ naudio = 0
    /\ resume = "none"
    /\ ttsIdx = 0
    /\ out = <<>>
    /\ ttsCalls = <<>>
    /\ llmRequests = <<>>
    /\ live = 0
    /\ gpc = "config"
    /\ result_queue = <<>>
    /\ asrPosted = 0
    /\ asr_done = FALSE
    /\ sentence_buffer = <<>>
    /\ tts_queue = <<>>
    /\ clock = 0
    /\ llm_status = 0
    /\ tts_status = 0
    /\ StoreIdle
    /\ PoolIdle
    /\ ServiceIdle

----------------------------------------------------------------------------
(* The life of sessions in the store: create_session, the handler's exit,  *)
(* _cleanup_session and get_session, each cut at its awaits                *)

\* no connection handler is running
GatewayOff ==
    /\ pc = "off" /\ gpc = "off"
    /\ state = "none"
    /\ language = "none"
    /\ conversation_history = <<>>
    /\ inbox = <<>> /\ alive = TRUE /\ sentAudio = 0
    /\ text_buffer = <<>> /\ full_response = <<>> /\ resume = "none" /\ ttsIdx = 0
    /\ nchunks = 0 /\ naudio = 0
    /\ out = <<>> /\ ttsCalls = <<>> /\ llmRequests = <<>>
    /\ live = 0
    /\ result_queue = <<>> /\ asrPosted = 0 /\ asr_done = FALSE
    /\ sentence_buffer = <<>> /\ tts_queue = <<>>
    /\ clock = 0 /\ llm_status = 0 /\ tts_status = 0

\* a connection sends its config: create_session
StoreOpen ==
    /\ \E sid \in FreshIds : CreateSession(sid)
    /\ UNCHANGED << session_id, get, accessed, gatewayVars, poolVars,
                    serviceVars >>

\* the handler of a session exits: finally creates the cleanup task
StoreClose ==
    /\ \E sid \in SessionIds :
          /\ cleanup[sid] = "unscheduled"
          /\ cleanup' = ScheduleCleanup(sid)
    /\ UNCHANGED << session_id, sessions, redis, get, accessed, gatewayVars, poolVars,
                    serviceVars >>

\* _cleanup_session: the sleep is over, the id is deleted from the map and
\* the task awaits redis_client.delete
CleanupWake ==
    /\ \E sid \in SessionIds :
          /\ cleanup[sid] = "sleeping"
          /\ sessions' = sessions \ { sid }
          /\ cleanup' = [cleanup EXCEPT ![sid] = "deleting"]
    /\ UNCHANGED << session_id, redis, get, accessed, gatewayVars, poolVars,
                    serviceVars >>

\* _cleanup_session: the cache executes the delete and the task completes
CleanupDone ==
    /\ \E sid \in SessionIds :
          /\ cleanup[sid] = "deleting"
          /\ redis' = redis \ { sid }
          /\ cleanup' = [cleanup EXCEPT ![sid] = "done"]
    /\ UNCHANGED << session_id, sessions, get, accessed, gatewayVars, poolVars,
                    serviceVars >>

\* the ids get_session has returned while their removal was pending
Accessed(sid) ==
    IF cleanup[sid] = "sleeping" THEN accessed \cup { sid } ELSE accessed

\* get_session(sid): a hit in the map returns at once; on a miss the call
\* awaits redis_client.get
GetSession ==
    /\ get.pc = "idle"
    /\ \E sid \in SessionIds :
          IF sid \in sessions
          THEN /\ accessed' = Accessed(sid)
               /\ UNCHANGED get
          ELSE /\ get' = [pc |-> "redis", id |-> sid, data |-> FALSE]
               /\ UNCHANGED accessed
    /\ UNCHANGED << session_id, sessions, redis, cleanup, gatewayVars, poolVars,
                    serviceVars >>

\* the cache executes the get
GetRedisReply ==
    /\ get.pc = "redis"
    /\ get' = [get EXCEPT !.pc = "reply", !.data = (get.id \in redis)]
    /\ UNCHANGED << session_id, sessions, redis, cleanup, accessed, gatewayVars, poolVars,
                    serviceVars >>

\* get_session resumes: on a hit the session is rehydrated into the map
GetReturn ==
    /\ get.pc = "reply"
    /\ IF get.data
       THEN /\ sessions' = sessions \cup { get.id }
            /\ accessed' = Accessed(get.id)
       ELSE UNCHANGED << sessions, accessed >>
    /\ get' = [pc |-> "idle", id |-> 0, data |-> FALSE]
    /\ UNCHANGED << session_id, redis, cleanup, gatewayVars, poolVars,
                    serviceVars >>

\* the key set with setex(session_timeout_seconds) expires
RedisExpire ==
    /\ \E sid \in redis : redis' = redis \ { sid }
    /\ UNCHANGED << session_id, sessions, cleanup, get, accessed, gatewayVars, poolVars,
                    serviceVars >>

StoreNext ==
    \/ StoreOpen
    \/ StoreClose
    \/ CleanupWake
    \/ CleanupDone
    \/ GetSession
    \/ GetRedisReply
    \/ GetReturn
    \/ RedisExpire

InitStore == GatewayOff /\ StoreIdle /\ PoolIdle /\ ServiceIdle

SpecStore == InitStore /\ [][StoreNext]_vars

----------------------------------------------------------------------------
(* ASRConnectionPool / TTSConnectionPool and the coroutines that use them  *)

\* the clients initialize() constructs: created + 1, created + 2, ...
NewClients(n) == [i \in 1..n |-> created + i]

\* initialize(): connect() does not suspend, so the loop runs in one step;
\* it appends n clients, and connect() raises for the next one when
\* n < pool_size, leaving _initialized False
PoolInitialize ==
    /\ ~initialized
    /\ poolLog.inits < MaxInits
    /\ \E n \in 0..pool_size :
          /\ pool_clients' = pool_clients \o NewClients(n)
          /\ available' = available \o NewClients(n)
          /\ created' = created + n
          /\ initialized' = (n = pool_size)
    /\ poolLog' = [poolLog EXCEPT !.inits = @ + 1]
    /\ UNCHANGED << closing, closed, req, gatewayVars, storeVars,
                    serviceVars >>

\* close(): `for client in self._clients: await client.close()`, one client
\* per step; after the last one, _clients.clear() and _initialized = False
PoolClose ==
    /\ IF closing = 0
       THEN /\ poolLog.closes < MaxCloses
            /\ poolLog' = [poolLog EXCEPT !.closes = @ + 1]
       ELSE UNCHANGED poolLog
    /\ LET i == IF closing = 0 THEN 1 ELSE closing IN
       IF i <= Len(pool_clients)
       THEN /\ closed' = closed \cup { pool_clients[i] }
            /\ closing' = i + 1
            /\ UNCHANGED << pool_clients, initialized >>
       ELSE /\ pool_clients' = <<>>
            /\ initialized' = FALSE
            /\ closing' = 0
            /\ UNCHANGED closed
    /\ UNCHANGED << available, created, req, gatewayVars, storeVars,
                    serviceVars >>

\* release(client): _available.put(client)
PoolRelease(client) == Append(available, client)

\* acquire() by requester r for the given use: _available.get()
Acquire(r, use) ==
    /\ req[r].pc = "idle"
    /\ available # <<>>
    /\ req' = [req EXCEPT ![r] = [pc |-> use, client |-> Head(available)]]
    /\ available' = Tail(available)
    /\ UNCHANGED << pool_clients, initialized, closing, closed, created, poolLog,
                    gatewayVars, storeVars,
                    serviceVars >>

\* a /transcribe or /synthesize request acquires its client
RequestAcquire == \E r \in Requesters : Acquire(r, "request")

\* the readiness probe acquires a client
ProbeAcquire == \E r \in Requesters : Acquire(r, "probe")

\* `async with pool as client`: __aenter__
ContextEnter == \E r \in Requesters : Acquire(r, "context")

\* the request ends (result returned, provider error, or the client aborted
\* the streamed response): finally, release(client)
RequestExit ==
    /\ \E r \in Requesters :
          /\ req[r].pc \in { "request", "probe" }
          /\ available' = PoolRelease(req[r].client)
          /\ req' = [req EXCEPT ![r].pc = "idle"]
    /\ UNCHANGED << pool_clients, initialized, closing, closed, created, poolLog,
                    gatewayVars, storeVars,
                    serviceVars >>

\* __aexit__: client = await self.acquire(); await self.release(client)
ContextExit ==
    /\ \E r \in Requesters :
          /\ req[r].pc = "context"
          /\ available # <<>>
          /\ available' = Append(Tail(available), Head(available))
          /\ req' = [req EXCEPT ![r].pc = "idle"]
    /\ UNCHANGED << pool_clients, initialized, closing, closed, created, poolLog,
                    gatewayVars, storeVars,
                    serviceVars >>

\* a caller releases once more the client it has already released
ReleaseAgain ==
    /\ poolLog.repeats < MaxRepeats
    /\ \E r \in Requesters :
          /\ req[r].pc = "idle" /\ req[r].client # 0
          /\ available' = PoolRelease(req[r].client)
    /\ poolLog' = [poolLog EXCEPT !.repeats = @ + 1]
    /\ UNCHANGED << pool_clients, initialized, closing, closed, created, req,
                    gatewayVars, storeVars,
                    serviceVars >>

PoolNext ==
    \/ PoolInitialize
    \/ PoolClose
    \/ RequestAcquire
    \/ ProbeAcquire
    \/ ContextEnter
    \/ RequestExit
    \/ ContextExit
    \/ ReleaseAgain

InitPool == GatewayOff /\ StoreIdle /\ PoolIdle /\ ServiceIdle

SpecPool == InitPool /\ [][PoolNext]_vars

----------------------------------------------------------------------------
(* The ASR bridge of a gRPC stream: the client's requests pass through     *)
(* input_processor, audio_source_gen and fill_queue to the worker thread   *)
(* that feeds the recognizer; its results come back to StreamAudio         *)

BridgeRest == << gatewayVars, storeVars, poolVars, cacheVars, loadVars, extraVars >>

\* Task.cancel(): a task that has finished is left alone
Cancel(tasks) ==
    cancels \cup { t \in tasks : \/ t = "input" /\ input_task = "running"
                                 \/ t = "fill" /\ fill_task = "running" }

\* nothing has been written on the stream yet
NothingWritten ==
    request_iterator = <<>> /\ input_queue = <<>> /\ first_msg = "unread"

\* the client writes a request: the first one is a config or audio
BClientWrite ==
    /\ client_stream = "open"
    /\ \/ /\ NothingWritten
          /\ request_iterator' = << "config" >>
          /\ UNCHANGED nrequests
       \/ /\ nrequests < MaxRequests
          /\ request_iterator' = Append(request_iterator, "audio")
          /\ nrequests' = nrequests + 1
    /\ UNCHANGED << client_stream, first_msg, input_task, input_queue, fill_task,
                    audio_queue, stream_closed, worker, transcript_queue, nresults,
                    asr_stream, handler, cancels, cancelled, events >>
    /\ UNCHANGED BridgeRest

\* the client is done writing
BClientHalfClose ==
    /\ client_stream = "open"
    /\ client_stream' = "half_closed"
    /\ UNCHANGED << request_iterator, nrequests, first_msg, input_task, input_queue,
                    fill_task, audio_queue, stream_closed, worker, transcript_queue,
                    nresults, asr_stream, handler, cancels, cancelled, events >>
    /\ UNCHANGED BridgeRest

\* the client cancels the call or disconnects: the handler task is cancelled
BClientGone ==
    /\ client_stream # "gone"
    /\ handler # "done"
    /\ client_stream' = "gone"
    /\ cancelled' = TRUE
    /\ cancels' = cancels \cup { "handler" }
    /\ UNCHANGED << request_iterator, nrequests, first_msg, input_task, input_queue,
                    fill_task, audio_queue, stream_closed, worker, transcript_queue,
                    nresults, asr_stream, handler, events >>
    /\ UNCHANGED BridgeRest

\* input_processor: `async for request in request_iterator: put(request)`
BInputRead ==
    /\ input_task = "running"
    /\ "input" \notin cancels
    /\ request_iterator # <<>>
    /\ input_queue' = Append(input_queue, Head(request_iterator))
    /\ request_iterator' = Tail(request_iterator)
    /\ UNCHANGED << client_stream, nrequests, first_msg, input_task, fill_task,
                    audio_queue, stream_closed, worker, transcript_queue, nresults,
                    asr_stream, handler, cancels, cancelled, events >>
    /\ UNCHANGED BridgeRest

\* input_processor leaves its loop (the iterator is exhausted or broken, or
\* the task is cancelled): finally, the sentinel
BInputEnd ==
    /\ input_task = "running"
    /\ \/ "input" \in cancels
       \/ request_iterator = <<>> /\ client_stream # "open"
    /\ input_queue' = Append(input_queue, "none")
    /\ input_task' = "done"
    /\ cancels' = cancels \ { "input" }
    /\ UNCHANGED << client_stream, request_iterator, nrequests, first_msg, fill_task,
                    audio_queue, stream_closed, worker, transcript_queue, nresults,
                    asr_stream, handler, cancelled, events >>
    /\ UNCHANGED BridgeRest

\* a StreamAudio whose finally yields nothing
StreamFinallyNothing == <<>>

\* StreamAudio, finally: the END_OF_TURN event
StreamFinally == << "END_OF_TURN" >>

\* StreamAudio takes the first message.  A config: the clients are built,
\* LISTENING is yielded and transcribe_stream runs to its first await, with
\* fill_task created and the worker submitted.  Anything else: asr_client is
\* unbound at line 118, so except yields ERROR and finally END_OF_TURN
BHandlerFirst ==
    /\ handler = "config"
    /\ "handler" \notin cancels
    /\ input_queue # <<>>
    /\ first_msg' = Head(input_queue)
    /\ input_queue' = Tail(input_queue)
    /\ IF Head(input_queue) = "config"
       THEN /\ events' = << "LISTENING" >>
            /\ fill_task' = "running"
            /\ worker' = "running"
            /\ asr_stream' = "active"
            /\ handler' = "asr"
            /\ UNCHANGED cancels
       ELSE /\ events' = << "ERROR" >> \o StreamFinally
            /\ cancels' = Cancel({ "input" })
            /\ handler' = "done"
            /\ UNCHANGED << fill_task, worker, asr_stream >>
    /\ UNCHANGED << client_stream, request_iterator, nrequests, input_task,
                    audio_queue, stream_closed, transcript_queue, nresults,
                    cancelled >>
    /\ UNCHANGED BridgeRest

\* a fill_queue whose finally puts nothing on the queue
FillFinallyNoMarker(q) == q

\* fill_queue, finally: audio_queue.put(None)
FillFinally(q) == Append(q, "none")

\* fill_queue: the next message of audio_source_gen; at the sentinel the
\* generator ends and finally sets stream_closed and puts the end marker
BFillRead ==
    /\ fill_task = "running"
    /\ "fill" \notin cancels
    /\ input_queue # <<>>
    /\ input_queue' = Tail(input_queue)
    /\ IF Head(input_queue) = "none"
       THEN /\ stream_closed' = TRUE
            /\ audio_queue' = FillFinally(audio_queue)
            /\ fill_task' = "done"
       ELSE /\ audio_queue' = Append(audio_queue, Head(input_queue))
            /\ UNCHANGED << stream_closed, fill_task >>
    /\ UNCHANGED << client_stream, request_iterator, nrequests, first_msg, input_task,
                    worker, transcript_queue, nresults, asr_stream, handler, cancels,
                    cancelled, events >>
    /\ UNCHANGED BridgeRest

\* fill_queue is cancelled at its await: finally, the end marker
BFillCancelled ==
    /\ fill_task = "running"
    /\ "fill" \in cancels
    /\ stream_closed' = TRUE
    /\ audio_queue' = FillFinally(audio_queue)
    /\ fill_task' = "done"
    /\ cancels' = cancels \ { "fill" }
    /\ UNCHANGED << client_stream, request_iterator, nrequests, first_msg, input_task,
                    input_queue, worker, transcript_queue, nresults, asr_stream,
                    handler, cancelled, events >>
    /\ UNCHANGED BridgeRest

\* a consume_riva_responses whose finally posts nothing
WorkerFinallyNoMarker(q) == q

\* consume_riva_responses, finally: result_queue.put(None)
WorkerFinally(q) == Append(q, "none")

\* audio_chunk_iterator: audio_queue.get(); a chunk goes to the recognizer, the
\* end marker ends the iterator and with it the responses, and finally the
\* worker posts its own end marker (an empty queue is the 1 s timeout, after
\* which the iterator waits again: stream_closed is only set with the marker)
BWorkerTake ==
    /\ worker = "running"
    /\ audio_queue # <<>>
    /\ audio_queue' = Tail(audio_queue)
    /\ IF Head(audio_queue) = "none"
       THEN /\ transcript_queue' = WorkerFinally(transcript_queue)
            /\ worker' = "exited"
       ELSE UNCHANGED << transcript_queue, worker >>
    /\ UNCHANGED << client_stream, request_iterator, nrequests, first_msg, input_task,
                    input_queue, fill_task, stream_closed, nresults, asr_stream,
                    handler, cancels, cancelled, events >>
    /\ UNCHANGED BridgeRest

\* consume_riva_responses posts a result, interim or final
BWorkerPost ==
    /\ worker = "running"
    /\ nresults < MaxResults
    /\ nresults' = nresults + 1
    /\ \E r \in { "interim", "final" } : transcript_queue' = Append(transcript_queue, r)
    /\ UNCHANGED << client_stream, request_iterator, nrequests, first_msg, input_task,
                    input_queue, fill_task, audio_queue, stream_closed, worker,
                    asr_stream, handler, cancels, cancelled, events >>
    /\ UNCHANGED BridgeRest

\* the recognizer raises: the worker logs it, and finally posts its end marker
BWorkerError ==
    /\ worker = "running"
    /\ transcript_queue' = WorkerFinally(transcript_queue)
    /\ worker' = "failed"
    /\ UNCHANGED << client_stream, request_iterator, nrequests, first_msg, input_task,
                    input_queue, fill_task, audio_queue, stream_closed, nresults,
                    asr_stream, handler, cancels, cancelled, events >>
    /\ UNCHANGED BridgeRest

\* `async for transcript, is_final in asr_stream`: the next item.  The end
\* marker ends transcribe_stream (finally: fill_task.cancel()) and StreamAudio
\* (finally: input_task.cancel(), END_OF_TURN)
BHandlerTake ==
    /\ handler = "asr"
    /\ "handler" \notin cancels
    /\ transcript_queue # <<>>
    /\ transcript_queue' = Tail(transcript_queue)
    /\ LET item == Head(transcript_queue) IN
       CASE item = "interim" ->
               /\ events' = Append(events, "transcript")
               /\ UNCHANGED << handler, asr_stream, cancels >>
         [] item = "final" ->
               /\ events' = events \o << "transcript", "PROCESSING" >>
               /\ handler' = "turn"
               /\ asr_stream' = "suspended"
               /\ UNCHANGED cancels
         [] item = "none" ->
               /\ events' = events \o StreamFinally
               /\ handler' = "done"
               /\ asr_stream' = "closed"
               /\ cancels' = Cancel({ "fill", "input" })
    /\ UNCHANGED << client_stream, request_iterator, nrequests, first_msg, input_task,
                    input_queue, fill_task, audio_queue, stream_closed, worker,
                    nresults, cancelled >>
    /\ UNCHANGED BridgeRest

\* the reply of the turn has been streamed: LISTENING, and the loop asks
\* asr_stream for its next item
BTurnDone ==
    /\ handler = "turn"
    /\ "handler" \notin cancels
    /\ events' = Append(events, "LISTENING")
    /\ handler' = "asr"
    /\ asr_stream' = "active"
    /\ UNCHANGED << client_stream, request_iterator, nrequests, first_msg, input_task,
                    input_queue, fill_task, audio_queue, stream_closed, worker,
                    transcript_queue, nresults, cancels, cancelled >>
    /\ UNCHANGED BridgeRest

\* the LLM or TTS call of the turn raises: except yields ERROR, finally
\* cancels input_task and yields END_OF_TURN; asr_stream is left at its yield
BTurnError ==
    /\ handler = "turn"
    /\ "handler" \notin cancels
    /\ events' = events \o << "ERROR" >> \o StreamFinally
    /\ handler' = "done"
    /\ cancels' = Cancel({ "input" })
    /\ UNCHANGED << client_stream, request_iterator, nrequests, first_msg, input_task,
                    input_queue, fill_task, audio_queue, stream_closed, worker,
                    transcript_queue, nresults, asr_stream, cancelled >>
    /\ UNCHANGED BridgeRest

\* CancelledError reaches StreamAudio at its await.  Inside asr_stream it
\* passes transcribe_stream's finally first; in a turn asr_stream is left at
\* its yield.  Nothing more reaches the client
BHandlerCancelled ==
    /\ "handler" \in cancels
    /\ handler # "done"
    /\ handler' = "done"
    /\ asr_stream' = IF handler = "asr" THEN "closed" ELSE asr_stream
    /\ cancels' = Cancel(IF handler = "asr" THEN { "fill", "input" } ELSE { "input" })
                     \ { "handler" }
    /\ UNCHANGED << client_stream, request_iterator, nrequests, first_msg, input_task,
                    input_queue, fill_task, audio_queue, stream_closed, worker,
                    transcript_queue, nresults, cancelled, events >>
    /\ UNCHANGED BridgeRest

\* the abandoned generator is collected: the loop's finalizer runs aclose(),
\* GeneratorExit passes transcribe_stream's finally
BFinalize ==
    /\ handler = "done"
    /\ asr_stream = "suspended"
    /\ asr_stream' = "closed"
    /\ cancels' = Cancel({ "fill" })
    /\ UNCHANGED << client_stream, request_iterator, nrequests, first_msg, input_task,
                    input_queue, fill_task, audio_queue, stream_closed, worker,
                    transcript_queue, nresults, handler, cancelled, events >>
    /\ UNCHANGED BridgeRest

BTurnEnds == BTurnDone \/ BTurnError

BridgeNext ==
    \/ BClientWrite
    \/ BClientHalfClose
    \/ BClientGone
    \/ BInputRead
    \/ BInputEnd
    \/ BHandlerFirst
    \/ BFillRead
    \/ BFillCancelled
    \/ BWorkerTake
    \/ BWorkerPost
    \/ BWorkerError
    \/ BHandlerTake
    \/ BTurnDone
    \/ BTurnError
    \/ BHandlerCancelled
    \/ BFinalize

\* StreamAudio has created input_task and waits for the first message
InitBridge ==
    /\ GatewayOff /\ StoreIdle /\ PoolIdle /\ CacheIdle /\ LoadIdle /\ ExtraIdle
    /\ client_stream = "open"
    /\ request_iterator = <<>>
    /\ nrequests = 0
    /\ first_msg = "unread"
    /\ input_task = "running"
    /\ input_queue = <<>>
    /\ fill_task = "off"
    /\ audio_queue = <<>>
    /\ stream_closed = FALSE
    /\ worker = "off"
    /\ transcript_queue = <<>>
    /\ nresults = 0
    /\ asr_stream = "off"
    /\ handler = "config"
    /\ cancels = {}
    /\ cancelled = FALSE
    /\ events = <<>>

\* the event loop runs every task that is ready, the executor runs the worker,
\* and the calls of a turn return or raise
BridgeFairness ==
    /\ WF_vars(BInputRead)
    /\ WF_vars(BInputEnd)
    /\ WF_vars(BHandlerFirst)
    /\ WF_vars(BFillRead)
    /\ WF_vars(BFillCancelled)
    /\ WF_vars(BWorkerTake)
    /\ WF_vars(BHandlerTake)
    /\ WF_vars(BTurnEnds)
    /\ WF_vars(BHandlerCancelled)

SpecBridge == InitBridge /\ [][BridgeNext]_vars /\ BridgeFairness

----------------------------------------------------------------------------
(* LLMClient.generate of the LLM service and its reply cache *)

\* texts the upstream model may reply with, the empty one included
ReplyTexts == { <<>>, << "a", "." >>, << "b" >> }

FinishReasons == { "stop", "length" }

GenerationResult(messages, text, tokens, finish, cached, posted, cache_error) ==
    [messages |-> messages, ok |-> TRUE, text |-> text, tokens_generated |-> tokens,
     finish_reason |-> finish, cached |-> cached, posted |-> posted,
     cache_error |-> cache_error, ttl_passed |-> ttl_passed]

\* the call raised what the upstream request raised
GenerationError(messages, cache_error) ==
    [messages |-> messages, ok |-> FALSE, text |-> <<>>, tokens_generated |-> 0,
     finish_reason |-> "none", cached |-> FALSE, posted |-> TRUE,
     cache_error |-> cache_error, ttl_passed |-> ttl_passed]

\* _check_cache and `if cached:`: the client is set, the read succeeds, and
\* the value read is a non-empty string
IsHit(entry, read_ok) ==
    llm_redis_client /\ read_ok /\ entry.present /\ entry.text # <<>>

\* generate(): the cache is read; a hit is returned; otherwise the upstream
\* is asked, its reply is cached and returned, or its error is raised
LlmGenerate ==
    /\ Len(generations) < MaxCalls
    /\ \E messages \in MessageLists, read_ok \in BOOLEAN :
          LET cache_key == CacheKey(messages)
              entry == llm_cache[cache_key]
              read_error == llm_redis_client /\ ~read_ok
          IN
          IF IsHit(entry, read_ok)
          THEN /\ generations' = Append(generations,
                     GenerationResult(messages, entry.text, 0, "cached", TRUE, FALSE, FALSE))
               /\ UNCHANGED llm_cache
          ELSE \/ /\ generations' = Append(generations, GenerationError(messages, read_error))
                  /\ UNCHANGED llm_cache
               \/ \E text \in ReplyTexts, finish \in FinishReasons, write_ok \in BOOLEAN :
                     /\ llm_cache' =
                           IF llm_redis_client /\ write_ok
                           THEN [llm_cache EXCEPT ![cache_key] = [present |-> TRUE, text |-> text]]
                           ELSE llm_cache
                     /\ generations' = Append(generations,
                           GenerationResult(messages, text, Len(text), finish, FALSE, TRUE,
                                            read_error \/ (llm_redis_client /\ ~write_ok)))
    /\ ttl_passed' = FALSE
    /\ UNCHANGED llm_redis_client
    /\ UNCHANGED << gatewayVars, storeVars, poolVars, bridgeVars, loadVars, extraVars >>

\* cache_ttl_seconds after it was written, a cached reply is gone
LlmCacheExpire ==
    /\ Len(generations) < MaxCalls
    /\ \E cache_key \in CacheKeys :
          /\ llm_cache[cache_key].present
          /\ llm_cache' = [llm_cache EXCEPT ![cache_key] = NoEntry]
    /\ ttl_passed' = TRUE
    /\ UNCHANGED << llm_redis_client, generations >>
    /\ UNCHANGED << gatewayVars, storeVars, poolVars, bridgeVars, loadVars, extraVars >>

LlmNext == LlmGenerate \/ LlmCacheExpire

\* after initialize(): the cache answered the ping, or the client has none
InitLlm ==
    /\ GatewayOff /\ StoreIdle /\ PoolIdle /\ BridgeIdle /\ LoadIdle /\ ExtraIdle
    /\ llm_redis_client \in BOOLEAN
    /\ llm_cache = [k \in CacheKeys |-> NoEntry]
    /\ ttl_passed = FALSE
    /\ generations = <<>>

SpecLlm == InitLlm /\ [][LlmNext]_vars

----------------------------------------------------------------------------
(* The load harness: tests/load/load_test.py main and LoadTestRunner.run *)

LoadRest == << gatewayVars, storeVars, poolVars, bridgeVars, cacheVars, extraVars >>

RunPhases == { "ramp_up", "hold", "ramp_down" }

\* success_rate < 0.95, for success_rate = successes / total, and 0 when the
\* report has no summary because nothing was collected
BelowThreshold(successes, total) == total = 0 \/ successes * 100 < 95 * total

\* main after runner.run() has returned: 1 below the threshold, 0 otherwise
ExitCode(successes, total) == IF BelowThreshold(successes, total) THEN 1 ELSE 0

\* the worker tasks that have not terminated
LiveTasks == { id \in 1..MaxUsers : task_state[id] \in { "running", "cancelling" } }

\* a _stop_all_workers that tells the workers to stop and waits for nothing
StopAllUnawaited(tasks) == tasks

\* _stop_all_workers: every task is cancelled and gathered
StopAll(tasks) ==
    [id \in DOMAIN tasks |->
        IF tasks[id] \in { "running", "cancelling" } THEN "cancelled" ELSE tasks[id]]

\* run() up to collector.start(): the audio files are loaded and
\* _signal_handler is installed for SIGINT and SIGTERM
LoadStart ==
    /\ load_pc = "main"
    /\ load_pc' = "ramp_up"
    /\ UNCHANGED << shutdown_event, workers, results, success_count, sigint, exit_code,
                    worker_tasks, task_state >>
    /\ UNCHANGED LoadRest

\* the audio directory is missing, or loading the audio files raises
LoadFails ==
    /\ load_pc = "main"
    /\ load_pc' = "exited"
    /\ exit_code' = 1
    /\ UNCHANGED << shutdown_event, workers, results, success_count, sigint,
                    worker_tasks, task_state >>
    /\ UNCHANGED LoadRest

\* SIGINT while the default handler is still in place: KeyboardInterrupt
LoadKeyboardInterrupt ==
    /\ load_pc = "main"
    /\ sigint' = "early"
    /\ load_pc' = "exited"
    /\ exit_code' = 130
    /\ UNCHANGED << shutdown_event, workers, results, success_count,
                    worker_tasks, task_state >>
    /\ UNCHANGED LoadRest

\* SIGINT during the run: _signal_handler sets the shutdown event
LoadSigint ==
    /\ load_pc \in RunPhases
    /\ sigint' = "run"
    /\ shutdown_event' = TRUE
    /\ UNCHANGED << load_pc, workers, results, success_count, exit_code,
                    worker_tasks, task_state >>
    /\ UNCHANGED LoadRest

\* the task of run() is cancelled in one of its phases: except CancelledError,
\* then finally
LoadCancel ==
    /\ load_pc \in RunPhases
    /\ load_pc' = "finally"
    /\ UNCHANGED << shutdown_event, workers, results, success_count, sigint, exit_code,
                    worker_tasks, task_state >>
    /\ UNCHANGED LoadRest

\* _ramp_up: one more worker, unless shutdown was requested; _add_worker
\* appends the worker and the task it creates for it
LoadAddWorker ==
    /\ load_pc = "ramp_up"
    /\ ~shutdown_event
    /\ workers < MaxUsers
    /\ workers' = workers + 1
    /\ LET id == CHOOSE id \in 1..MaxUsers :
                    /\ task_state[id] = "none"
                    /\ \A other \in 1..(id - 1) : task_state[other] # "none"
       IN  /\ worker_tasks' = Append(worker_tasks, id)
           /\ task_state' = [task_state EXCEPT ![id] = "running"]
    /\ UNCHANGED << load_pc, shutdown_event, results, success_count, sigint, exit_code >>
    /\ UNCHANGED LoadRest

\* _ramp_up returns
LoadRampUpDone ==
    /\ load_pc = "ramp_up"
    /\ shutdown_event \/ workers = MaxUsers
    /\ load_pc' = "hold"
    /\ UNCHANGED << shutdown_event, workers, results, success_count, sigint, exit_code,
                    worker_tasks, task_state >>
    /\ UNCHANGED LoadRest

\* the hold ends, by its timeout or by the shutdown event; the ramp down is
\* skipped when shutdown was requested
LoadHoldEnd ==
    /\ load_pc = "hold"
    /\ load_pc' = IF shutdown_event THEN "finally" ELSE "ramp_down"
    /\ UNCHANGED << shutdown_event, workers, results, success_count, sigint, exit_code,
                    worker_tasks, task_state >>
    /\ UNCHANGED LoadRest

\* _ramp_down: one worker less, unless shutdown was requested; _remove_worker
\* pops the last worker and the last task, cancels the task and awaits it
LoadRemoveWorker ==
    /\ load_pc = "ramp_down"
    /\ ~shutdown_event
    /\ workers > 0
    /\ workers' = workers - 1
    /\ LET id == worker_tasks[Len(worker_tasks)] IN
          /\ worker_tasks' = SubSeq(worker_tasks, 1, Len(worker_tasks) - 1)
          /\ task_state' = [task_state EXCEPT
                               ![id] = IF @ = "running" THEN "cancelled" ELSE @]
    /\ UNCHANGED << load_pc, shutdown_event, results, success_count, sigint, exit_code >>
    /\ UNCHANGED LoadRest

\* _ramp_down returns
LoadRampDownDone ==
    /\ load_pc = "ramp_down"
    /\ shutdown_event \/ workers = 0
    /\ load_pc' = "finally"
    /\ UNCHANGED << shutdown_event, workers, results, success_count, sigint, exit_code,
                    worker_tasks, task_state >>
    /\ UNCHANGED LoadRest

\* a worker records the result of one request
LoadResult ==
    /\ load_pc \in RunPhases
    /\ \E id \in 1..MaxUsers : task_state[id] = "running"
    /\ results < MaxSamples
    /\ results' = results + 1
    /\ \E status \in { "success", "error", "timeout" } :
          success_count' = IF status = "success" THEN success_count + 1 ELSE success_count
    /\ UNCHANGED << load_pc, shutdown_event, workers, sigint, exit_code,
                    worker_tasks, task_state >>
    /\ UNCHANGED LoadRest

\* VoiceWorker.start returns by itself, having made requests_per_user
\* requests: the task is done, and stays in the runner's lists
LoadWorkerDone ==
    /\ load_pc \in RunPhases
    /\ results > 0
    /\ \E id \in 1..MaxUsers :
          /\ task_state[id] = "running"
          /\ task_state' = [task_state EXCEPT ![id] = "done"]
    /\ UNCHANGED << load_pc, shutdown_event, workers, results, success_count, sigint,
                    exit_code, worker_tasks >>
    /\ UNCHANGED LoadRest

\* run's finally stops the workers and returns the collector; main computes
\* the success rate of the report and returns
LoadExit ==
    /\ load_pc = "finally"
    /\ workers' = 0
    /\ worker_tasks' = <<>>
    /\ task_state' = StopAll(task_state)
    /\ exit_code' = ExitCode(success_count, results)
    /\ load_pc' = "exited"
    /\ UNCHANGED << shutdown_event, results, success_count, sigint >>
    /\ UNCHANGED LoadRest

\* the task of run() is cancelled while finally gathers the worker tasks:
\* every task has been asked to cancel, the gather is abandoned, the lists
\* are not cleared, and the CancelledError leaves run() and main()
LoadCancelFinally ==
    /\ load_pc = "finally"
    /\ task_state' = [id \in 1..MaxUsers |->
                         IF task_state[id] = "running" THEN "cancelling"
                         ELSE task_state[id]]
    /\ load_pc' = "cancelled"
    /\ UNCHANGED << shutdown_event, workers, results, success_count, sigint, exit_code,
                    worker_tasks >>
    /\ UNCHANGED LoadRest

\* a worker task that was asked to cancel ends
LoadTaskCancelled ==
    /\ \E id \in 1..MaxUsers :
          /\ task_state[id] = "cancelling"
          /\ task_state' = [task_state EXCEPT ![id] = "cancelled"]
    /\ UNCHANGED << load_pc, shutdown_event, workers, results, success_count, sigint,
                    exit_code, worker_tasks >>
    /\ UNCHANGED LoadRest

LoadNext ==
    \/ LoadStart
    \/ LoadFails
    \/ LoadKeyboardInterrupt
    \/ LoadSigint
    \/ LoadCancel
    \/ LoadAddWorker
    \/ LoadRampUpDone
    \/ LoadHoldEnd
    \/ LoadRemoveWorker
    \/ LoadRampDownDone
    \/ LoadResult
    \/ LoadWorkerDone
    \/ LoadExit
    \/ LoadCancelFinally
    \/ LoadTaskCancelled

InitLoad ==
    /\ GatewayOff /\ StoreIdle /\ PoolIdle /\ BridgeIdle /\ CacheIdle /\ ExtraIdle
    /\ load_pc = "main"
    /\ shutdown_event = FALSE
    /\ workers = 0
    /\ results = 0
    /\ success_count = 0
    /\ sigint = "none"
    /\ exit_code = -1
    /\ worker_tasks = <<>>
    /\ task_state = [id \in 1..MaxUsers |-> "none"]

SpecLoad == InitLoad /\ [][LoadNext]_vars

-----------------------------------------------------------------------------
(* The default executor of the event loop, shared by the streams of a        *)
(* process: every stream's recognizer worker and every synthesis call is     *)
(* submitted to it with loop.run_in_executor(None, ...)                      *)

ThreadsRest == << gatewayVars, storeVars, poolVars, bridgeVars, cacheVars, loadVars,
                 buildVars, sseVars, synthVars >>

\* a call submitted to the executor: the recognizer worker of a stream or the
\* synthesis of one of its sentences
Call(kind, s) == << kind, s >>

\* transcribe_stream of a new stream submits consume_riva_responses
TOpen(s) ==
    /\ stream_pc[s] = "idle"
    /\ stream_pc' = [stream_pc EXCEPT ![s] = "asr"]
    /\ executor_queue' = Append(executor_queue, Call("asr", s))
    /\ UNCHANGED << executing, spoken >>
    /\ UNCHANGED ThreadsRest

\* a free thread of the executor starts the oldest submitted call
TRun ==
    /\ executor_queue # <<>>
    /\ Cardinality(executing) < ExecutorThreads
    /\ executing' = executing \cup { Head(executor_queue) }
    /\ executor_queue' = Tail(executor_queue)
    /\ UNCHANGED << stream_pc, spoken >>
    /\ UNCHANGED ThreadsRest

\* the worker of the stream posts a final transcript, the reply's sentence is
\* ready, and synthesize_stream awaits run_in_executor(None, run_riva_synthesis)
TSubmit(s) ==
    /\ stream_pc[s] = "asr"
    /\ Call("asr", s) \in executing
    /\ spoken[s] < MaxSpoken
    /\ stream_pc' = [stream_pc EXCEPT ![s] = "tts"]
    /\ executor_queue' = Append(executor_queue, Call("tts", s))
    /\ UNCHANGED << executing, spoken >>
    /\ UNCHANGED ThreadsRest

\* run_riva_synthesis returns: its thread is free, the audio is yielded and
\* the turn completes; the loop over the transcripts goes on, and ends at
\* once if the recognizer worker has returned meanwhile
TSynthesized(s) ==
    /\ Call("tts", s) \in executing
    /\ executing' = executing \ { Call("tts", s) }
    /\ stream_pc' = [stream_pc EXCEPT
                        ![s] = IF Call("asr", s) \in executing THEN "asr" ELSE "closed"]
    /\ spoken' = [spoken EXCEPT ![s] = @ + 1]
    /\ UNCHANGED executor_queue
    /\ UNCHANGED ThreadsRest

\* the client ends its audio, between two turns or during one: the end
\* marker reaches audio_chunk_iterator, the worker returns and its thread is
\* free
TClose(s) ==
    /\ stream_pc[s] \in { "asr", "tts" }
    /\ Call("asr", s) \in executing
    /\ executing' = executing \ { Call("asr", s) }
    /\ stream_pc' = [stream_pc EXCEPT ![s] = IF @ = "asr" THEN "closed" ELSE @]
    /\ UNCHANGED << executor_queue, spoken >>
    /\ UNCHANGED ThreadsRest

ThreadsNext ==
    \/ \E s \in Streams : TOpen(s)
    \/ TRun
    \/ \E s \in Streams : TSubmit(s)
    \/ \E s \in Streams : TSynthesized(s)
    \/ \E s \in Streams : TClose(s)

InitThreads ==
    /\ GatewayOff /\ StoreIdle /\ PoolIdle /\ BridgeIdle /\ CacheIdle /\ LoadIdle
    /\ ThreadsIdle /\ BuildIdle /\ SseIdle /\ SynthIdle

\* a free thread takes the next call, and a synthesis that runs returns
ThreadsFairness ==
    /\ WF_vars(TRun)
    /\ \A s \in Streams : WF_vars(TSynthesized(s))

SpecThreads == InitThreads /\ [][ThreadsNext]_vars /\ ThreadsFairness

-----------------------------------------------------------------------------
(* LLMClient._build_messages as a function of the history, the language and *)
(* settings.max_history_turns                                                *)

\* entries of the longest history a call is made with
MaxHistory == 5

\* largest settings.max_history_turns a call is made under
MaxHistoryTurns == 2

\* a conversation of distinct entries, user and assistant in turn
Conversation ==
    [i \in 1..MaxHistory |->
        IF i % 2 = 1 THEN UserEntry(<< "u", i >>) ELSE AssistantEntry(<< "a", i >>)]

\* the histories of the calls: the conversation up to any of its entries
BuildHistories == { SubSeq(Conversation, 1, n) : n \in 0..MaxHistory }

\* language codes of the calls
LanguageCodes == { "hi-IN", "hi", "en-US", "fr-FR" }

\* messages = self._build_messages(conversation_history, language)
BuildCall ==
    /\ build_result = <<>>
    /\ build_result' = BuildMessagesWith(build_history, build_language, build_turns)
    /\ UNCHANGED << build_history, build_turns, build_language >>
    /\ UNCHANGED << gatewayVars, storeVars, poolVars, bridgeVars, cacheVars, loadVars,
                    threadVars, sseVars, synthVars >>

InitBuild ==
    /\ GatewayOff /\ StoreIdle /\ PoolIdle /\ BridgeIdle /\ CacheIdle /\ LoadIdle
    /\ ThreadsIdle /\ SseIdle /\ SynthIdle
    /\ build_history \in BuildHistories
    /\ build_turns \in 0..MaxHistoryTurns
    /\ build_language \in LanguageCodes
    /\ build_result = <<>>

SpecBuild == InitBuild /\ [][BuildCall]_vars

-----------------------------------------------------------------------------
(* LLMClient.generate_stream reading the lines of a streaming response      *)

SseRest == << gatewayVars, storeVars, poolVars, bridgeVars, cacheVars, loadVars,
              threadVars, buildVars, synthVars >>

\* lines of the longest body
MaxLines == 3

\* a body line: whether it starts with "data: ", and what follows the prefix
\* (or the whole line when there is none): the sentinel, text that is not
\* JSON, or a JSON object
Line(prefix, data) == [prefix |-> prefix, data |-> data]

Sentinel == [kind |-> "done"]

NotJson == [kind |-> "text"]

Json(value) == [kind |-> "json", value |-> value]

\* a completion chunk whose first choice has the given delta
Chunk(delta) == [choices |-> << [delta |-> delta] >>]

\* the lines a body is made of
Lines ==
    << Line(FALSE, NotJson),                               \* an empty line, a comment
       Line(FALSE, Sentinel),                              \* [DONE] without the prefix
       Line(TRUE, Sentinel),                               \* data: [DONE]
       Line(TRUE, NotJson),                                \* data: {"choi
       Line(TRUE, Json(Chunk([content |-> "a"]))),
       Line(TRUE, Json(Chunk([content |-> "b"]))),
       Line(TRUE, Json(Chunk([content |-> ""]))),
       Line(TRUE, Json(Chunk([role |-> "assistant"]))),    \* a delta without content
       Line(TRUE, Json([choices |-> << [finish_reason |-> "stop"] >>])),
       Line(TRUE, Json([choices |-> <<>>])),
       Line(TRUE, Json([error |-> "overloaded"])) >>       \* an object without choices

Bodies == UNION { [1..n -> 1..Len(Lines)] : n \in 0..MaxLines }

\* dict.get(key, default)
DictGet(d, key, default) == IF key \in DOMAIN d THEN d[key] ELSE default

\* what the loop body does with a line: "continue", "break", "raise", or
\* the content it yields
OnLine(line) ==
    IF ~line.prefix THEN "continue"
    ELSE IF line.data.kind = "done" THEN "break"
    ELSE IF line.data.kind = "text" THEN "continue"        \* JSONDecodeError
    ELSE LET chunk == line.data.value IN
         IF "choices" \notin DOMAIN chunk THEN "raise"     \* KeyError
         ELSE IF chunk["choices"] = <<>> THEN "raise"      \* IndexError
         ELSE LET delta == DictGet(chunk["choices"][1], "delta", [none |-> ""])
                  content == DictGet(delta, "content", "")
              IN  IF content # "" THEN content ELSE "continue"

\* `async for line in response.aiter_lines()`: the next line
SseLine ==
    /\ stream_status = "reading"
    /\ sse_pos < Len(sse_body)
    /\ sse_pos' = sse_pos + 1
    /\ LET step == OnLine(Lines[sse_body[sse_pos + 1]]) IN
       /\ yielded' = IF step \in { "continue", "break", "raise" }
                     THEN yielded ELSE Append(yielded, step)
       /\ stream_status' = CASE step = "break" -> "ended"
                              [] step = "raise" -> "failed"
                              [] OTHER -> "reading"
    /\ UNCHANGED sse_body
    /\ UNCHANGED SseRest

\* the body is exhausted: the loop and the stream end
SseEnd ==
    /\ stream_status = "reading"
    /\ sse_pos = Len(sse_body)
    /\ stream_status' = "ended"
    /\ UNCHANGED << sse_body, sse_pos, yielded >>
    /\ UNCHANGED SseRest

SseNext == SseLine \/ SseEnd

InitSse ==
    /\ GatewayOff /\ StoreIdle /\ PoolIdle /\ BridgeIdle /\ CacheIdle /\ LoadIdle
    /\ ThreadsIdle /\ BuildIdle /\ SynthIdle
    /\ sse_body \in Bodies
    /\ sse_pos = 0
    /\ yielded = <<>>
    /\ stream_status = "reading"

SpecSse == InitSse /\ [][SseNext]_vars

-----------------------------------------------------------------------------
(* TTSClient.synthesize_stream: the worker thread that iterates the         *)
(* synthesizer's responses, and the coroutine that yields them              *)

SynthRest == << gatewayVars, storeVars, poolVars, bridgeVars, cacheVars, loadVars,
                threadVars, buildVars, sseVars >>

\* sentences of a turn
MaxSentences == 3

\* audio chunks of a sentence, at most
MaxProduced == 3

\* `await loop.run_in_executor(None, run_riva_synthesis)` returns at once
AwaitReturnsAtOnce == TRUE

\* `await loop.run_in_executor(None, run_riva_synthesis)` returns
AwaitReturns == synth_worker = "returned"

\* synthesize_stream(text) is called: the queue is created and the worker
\* submitted
SynthCall ==
    /\ synth_consumer \in { "off", "ended" }
    /\ synth_sentence < MaxSentences
    /\ synth_sentence' = synth_sentence + 1
    /\ synth_worker' = "running"
    /\ synth_produced' = 0
    /\ synth_queue' = <<>>
    /\ synth_consumer' = "awaiting"
    /\ synth_yielded' = <<>>
    /\ UNCHANGED SynthRest

\* run_riva_synthesis posts the audio of the next response
SynthPost ==
    /\ synth_worker = "running"
    /\ synth_produced < MaxProduced
    /\ synth_produced' = synth_produced + 1
    /\ synth_queue' = Append(synth_queue, AudioItem(synth_produced + 1))
    /\ UNCHANGED << synth_sentence, synth_worker, synth_consumer, synth_yielded >>
    /\ UNCHANGED SynthRest

\* run_riva_synthesis ends: the responses are exhausted, or the synthesizer
\* raised and the exception is posted; finally the end marker is posted
SynthReturn ==
    /\ synth_worker = "running"
    /\ \E failed \in BOOLEAN :
          synth_queue' = synth_queue \o (IF failed THEN << ExcItem >> ELSE <<>>)
                                    \o << NoneItem >>
    /\ synth_worker' = "returned"
    /\ UNCHANGED << synth_sentence, synth_produced, synth_consumer, synth_yielded >>
    /\ UNCHANGED SynthRest

\* the await of the worker's future returns and the consuming loop starts
SynthResume ==
    /\ synth_consumer = "awaiting"
    /\ AwaitReturns
    /\ synth_consumer' = "consuming"
    /\ UNCHANGED << synth_sentence, synth_worker, synth_produced, synth_queue,
                    synth_yielded >>
    /\ UNCHANGED SynthRest

\* `item = await result_queue.get()`: the end marker ends the loop, an
\* exception is raised, audio is yielded
SynthTake ==
    /\ synth_consumer = "consuming"
    /\ synth_queue # <<>>
    /\ synth_queue' = Tail(synth_queue)
    /\ LET item == Head(synth_queue) IN
       CASE item.kind = "none" ->
               /\ synth_consumer' = "ended"
               /\ UNCHANGED synth_yielded
         [] item.kind = "exception" ->
               /\ synth_consumer' = "raised"
               /\ UNCHANGED synth_yielded
         [] OTHER ->
               /\ synth_yielded' = Append(synth_yielded, item.idx)
               /\ UNCHANGED synth_consumer
    /\ UNCHANGED << synth_sentence, synth_worker, synth_produced >>
    /\ UNCHANGED SynthRest

SynthNext == SynthCall \/ SynthPost \/ SynthReturn \/ SynthResume \/ SynthTake

InitSynth ==
    /\ GatewayOff /\ StoreIdle /\ PoolIdle /\ BridgeIdle /\ CacheIdle /\ LoadIdle
    /\ ThreadsIdle /\ BuildIdle /\ SseIdle
    /\ SynthIdle

SpecSynth == InitSynth /\ [][SynthNext]_vars

----------------------------------------------------------------------------
(* A behaviour is one connection, of either deployment *)

Init == InitWs \/ InitGrpc

Next == WsNext \/ GrpcNext

Spec == Init /\ [][Next]_vars

----------------------------------------------------------------------------
(* Observations on the emitted frames *)

Last(s) == s[Len(s)]

IsInterim(f) == f.type = "transcript" /\ ~f.final
IsFinal(f) == f.type = "transcript" /\ f.final
IsReply(f) == f.type = "response_text" /\ ~f.final
IsTerminalReply(f) == f.type = "response_text" /\ f.final
IsAudio(f) == f.type = "audio"
IsClose(f) == f.type = "close"
IsError(f) == f.type = "error" \/ (f.type = "event" /\ f.info = "ERROR")

ReplyIdx == { i \in 1..Len(out) : IsReply(out[i]) }
AudioIdx == { i \in 1..Len(out) : IsAudio(out[i]) }

Min(S) == CHOOSE x \in S : \A y \in S : x <= y
Max(S) == CHOOSE x \in S : \A y \in S : y <= x

\* the text of the reply chunks among the first n frames, concatenated
RECURSIVE ReplyTextUpTo(_)
ReplyTextUpTo(n) ==
    IF n = 0 THEN <<>>
    ELSE ReplyTextUpTo(n - 1) \o (IF IsReply(out[n]) THEN out[n].text ELSE <<>>)

\* T: the LLM output of the turn as the client received it
ReplyText == ReplyTextUpTo(Len(out))

\* a WebSocket turn has run to its completion
WsTurnCompleted == pc = "loop" /\ out # <<>> /\ Last(out) = Status("idle")

\* a gRPC turn has run to its completion
GTurnCompleted ==
    gpc = "asr" /\ Len(out) > 1 /\ Last(out) = Event("LISTENING")

TurnCompleted == WsTurnCompleted \/ GTurnCompleted

----------------------------------------------------------------------------
(* C1: at most one turn of a session is in flight at any instant; a new    *)
(* turn's ASR call is never started before the earlier turn has ended.     *)

C1_AtMostOneTurn ==
    /\ live \in {0, 1}
    /\ (live = 1) <=> (pc \in {"asr", "llm", "tts"} \/ gpc \in {"llm", "tts"})

\* an audio frame is waiting while the turn in progress is speaking
C1_Witness ==
    pc = "tts" /\ live = 1 /\ inbox # <<>> /\ Head(inbox) = "audio" /\ AudioIdx # {}

(* C2: within a turn every interim transcript precedes the final one, the  *)
(* final transcript precedes every reply-text chunk and every audio chunk, *)
(* audio of sentence k precedes audio of sentence k+1, and within a        *)
(* sentence the audio chunks keep the order in which TTS produced them.    *)

C2_FrameOrder ==
    /\ \A i, j \in 1..Len(out) :
          i < j =>
             /\ ~(IsFinal(out[i]) /\ IsInterim(out[j]))
             /\ ~((IsReply(out[i]) \/ IsAudio(out[i])) /\ out[j].type = "transcript")
             /\ (IsAudio(out[i]) /\ IsAudio(out[j]) =>
                    \/ out[i].sent < out[j].sent
                    \/ out[i].sent = out[j].sent /\ out[i].idx < out[j].idx)
    /\ \A j \in ReplyIdx \cup AudioIdx : \E i \in 1..(j - 1) : IsFinal(out[i])
    /\ \A j \in AudioIdx :
          out[j].idx = Cardinality({ i \in 1..j : IsAudio(out[i]) /\ out[i].sent = out[j].sent })

\* a turn with an interim transcript and a sentence of two audio chunks
C2_Witness ==
    \E i, j, k, l \in 1..Len(out) :
        /\ i < j /\ j < k /\ k < l
        /\ IsInterim(out[i]) /\ IsFinal(out[j])
        /\ IsAudio(out[k]) /\ IsAudio(out[l]) /\ out[k].sent = out[l].sent

\* a turn with audio of two sentences
C2_WitnessTwoSentences ==
    \E k, l \in AudioIdx : out[k].sent = 1 /\ out[l].sent = 2

(* C3: a turn with a non-empty transcript that completes without error     *)
(* appends exactly one assistant entry holding the concatenation of the    *)
(* reply-text chunks sent, then emits the terminal reply-text chunk and    *)
(* the status idle; the state is IDLE and no reply text or audio follows.  *)

C3_Completion ==
    WsTurnCompleted =>
        /\ state = "IDLE"
        /\ Len(out) >= 2
        /\ out[Len(out) - 1] = ResponseText(<<>>, TRUE)
        /\ \A i \in 1..Len(out) :
              (IsReply(out[i]) \/ IsAudio(out[i]) \/ IsTerminalReply(out[i]))
                 => i <= Len(out) - 1
        /\ Cardinality({ i \in 1..Len(out) : IsTerminalReply(out[i]) }) = 1
        /\ Len(llmRequests) = 1
        /\ conversation_history =
              Append(llmRequests[1], AssistantEntry(ReplyText))

\* a completed turn whose reply came in two chunks and was spoken
C3_Witness ==
    WsTurnCompleted /\ Cardinality(ReplyIdx) = 2 /\ AudioIdx # {}

(* C4: when a stage of a turn raises, the client receives exactly one      *)
(* error frame, the session state becomes IDLE and the connection stays    *)
(* usable: the handler goes back to waiting for the next audio.            *)

\* the error frame of a turn, as opposed to the answer to a control frame
IsStageError(f) ==
    IsError(f) /\ \A new_lang \in RequestedLanguages :
                     f.text # << UnsupportedLanguage(new_lang) >>

C4_ErrorEndsTurnOnly ==
    (\E i \in 1..Len(out) : IsStageError(out[i])) =>
        /\ Cardinality({ i \in 1..Len(out) : IsStageError(out[i]) }) = 1
        /\ pc # "off" => (pc \in {"loop", "raise", "done"} /\ (pc = "loop" => state = "IDLE"))
        /\ gpc # "off" => gpc = "asr"

(* C5: an ASR final transcript that is empty after trimming ends the turn  *)
(* silently: no LLM request, no TTS request, no error frame, and the       *)
(* session state becomes IDLE.                                             *)

\* the WebSocket turn ended after its first status frame
WsSilentEnd == pc = "loop" /\ out = << Status("processing/asr") >>

C5_EmptyTranscriptEndsIdle ==
    /\ WsSilentEnd => (state = "IDLE" /\ llmRequests = <<>> /\ ttsCalls = <<>>)
    /\ \A i \in 1..Len(out) :
          (IsFinal(out[i]) /\ strip(out[i].text) = <<>>) =>
              (llmRequests = <<>> /\ ttsCalls = <<>>)

(* C6: every change of a session's lifecycle state is a transition of the  *)
(* session state machine, and CLOSED is terminal.                          *)

\* the transitions the state machine lists
ListedTransitions ==
    { << "INITIALIZED", "LISTENING" >>, << "LISTENING", "PROCESSING" >>,
      << "PROCESSING", "LISTENING" >>, << "PROCESSING", "SPEAKING" >>,
      << "SPEAKING", "IDLE" >>, << "IDLE", "LISTENING" >> }

\* the transitions of the handler: an error frame ends a turn in IDLE from
\* LISTENING or PROCESSING, as does a reply without audio; PROCESSING is never
\* left for LISTENING
HandlerTransitions ==
    { << "INITIALIZED", "LISTENING" >>, << "LISTENING", "PROCESSING" >>,
      << "LISTENING", "IDLE" >>, << "PROCESSING", "SPEAKING" >>,
      << "PROCESSING", "IDLE" >>, << "SPEAKING", "IDLE" >>,
      << "IDLE", "LISTENING" >> }

Lifecycle(T) ==
    \/ state' = state
    \/ state = "none" /\ state' = "INITIALIZED"
    \/ state \notin {"none", "CLOSED"} /\ state' = "CLOSED"
    \/ << state, state' >> \in T

C7_NoBackwardState ==
    [][ /\ state = "SPEAKING" => state' \in {"SPEAKING", "IDLE", "CLOSED"}
        /\ state = "PROCESSING" =>
              state' \in {"PROCESSING", "SPEAKING", "IDLE", "CLOSED"} ]_vars

\* a reply-text chunk was relayed after audio, and the session is still SPEAKING
C7_Witness ==
    /\ state = "SPEAKING" /\ pc = "llm"
    /\ out # <<>> /\ IsReply(Last(out)) /\ AudioIdx # {}

(* C8: the texts submitted to TTS during a turn, concatenated in order,    *)
(* equal the LLM output T up to trailing whitespace.                       *)

\* the claim as stated
C8_RoundTripExact ==
    TurnCompleted => rstrip(Concat(ttsCalls)) = rstrip(ReplyText)

\* t is ss[1], ss[2], ... in order, with nothing but whitespace before,
\* between and after them
RECURSIVE MatchesUpToBoundaryWhitespace(_, _)
MatchesUpToBoundaryWhitespace(t, ss) ==
    IF ss = <<>> THEN strip(t) = <<>>
    ELSE LET u == lstrip(t)
             h == Head(ss)
         IN  /\ Len(h) <= Len(u)
             /\ SubSeq(u, 1, Len(h)) = h
             /\ MatchesUpToBoundaryWhitespace(SubSeq(u, Len(h) + 1, Len(u)), Tail(ss))

\* amended: equal up to the whitespace at the ends of each submitted text
C8_RoundTrip ==
    TurnCompleted =>
        /\ MatchesUpToBoundaryWhitespace(ReplyText, ttsCalls)
        /\ \A k \in 1..Len(ttsCalls) :
              ttsCalls[k] # <<>> /\ strip(ttsCalls[k]) = ttsCalls[k]

\* a completed WebSocket turn that spoke "a." and then "b" for the reply "a. b"
C8_Witness ==
    /\ WsTurnCompleted
    /\ ReplyText = << "a", ".", SPACE, "b" >>
    /\ ttsCalls = << << "a", "." >>, << "b" >> >>

(* C9: when the reply arrives in several chunks and an earlier chunk       *)
(* completes a sentence, the first audio chunk of the turn is emitted no   *)
(* later than the last reply-text chunk.                                   *)

Terminators == { ".", "?", "!", DANDA, NEWLINE }

HasSentence(t) ==
    \E i \in 1..Len(t) : t[i] \in Terminators /\ strip(SubSeq(t, 1, i)) # <<>>

\* a reply-text chunk other than the last one completes a sentence
EarlierChunkCompletesSentence ==
    \E k \in ReplyIdx : k < Max(ReplyIdx) /\ HasSentence(ReplyTextUpTo(k))

\* TTS returned audio for every text submitted to it
AllSentencesVoiced ==
    /\ ttsCalls # <<>>
    /\ \A n \in 1..Len(ttsCalls) : \E j \in AudioIdx : out[j].sent = n

C9_AudioBeforeTextEnds ==
    (TurnCompleted /\ EarlierChunkCompletesSentence /\ AllSentencesVoiced)
        => Min(AudioIdx) < Max(ReplyIdx)

(* C10: at every instant the length of a session's conversation history is *)
(* at most 2 * max_history_turns.                                           *)

C10_HistoryBound == Len(conversation_history) <= 2 * max_history_turns

(* C11: once the client's transport is closed, no error frame is sent;   *)
(* whichever way the handler of a created session exits, the session is    *)
(* CLOSED and its deferred deletion is scheduled.                          *)

NoNewErrorFrame ==
    \A i \in 1..Len(out') :
        (IsError(out'[i]) \/ IsClose(out'[i])) => (i <= Len(out) /\ out[i] = out'[i])

C11_SilentCleanup ==
    /\ []((pc = "done" /\ state # "none") =>
             (state = "CLOSED" /\ cleanup[session_id] = "sleeping"))
    /\ [][~alive => NoNewErrorFrame]_vars

\* the client went away in the middle of a reply
C11_Witness ==
    /\ pc = "done" /\ state = "CLOSED" /\ ~alive
    /\ ReplyIdx # {}
    /\ \A i \in 1..Len(out) : ~IsTerminalReply(out[i]) /\ ~IsError(out[i])
    /\ cleanup[session_id] = "sleeping"

(* C12: a connection whose client sends no config within ConfigTimeout    *)
(* seconds is closed with reason "Config timeout" (code 4000); no session  *)
(* is created and no pipeline stage runs.                                  *)

C12_ConfigTimeout ==
    /\ clock <= ConfigTimeout
    /\ (pc = "done" /\ state = "none" /\ alive /\ clock = ConfigTimeout) =>
          /\ out = << CloseFrame(4000, "Config timeout") >>
          /\ llmRequests = <<>> /\ ttsCalls = <<>> /\ live = 0

(* C13: when a provider answers a call of a turn with an error, a        *)
(* non-success HTTP status included, the turn ends with an error frame and *)
(* IDLE, and nothing of the provider's error response reaches the client   *)
(* as transcript, reply text or audio.                                     *)

NonSuccess(status) == status \notin { 0, 200 }

C13_ProviderErrorNotForwarded ==
    /\ NonSuccess(llm_status) => ReplyIdx = {}
    /\ NonSuccess(tts_status) =>
          \A j \in AudioIdx : out[j].sent # Len(ttsCalls)
    /\ (pc = "loop" /\ \E i \in 1..Len(out) : IsStageError(out[i])) => state = "IDLE"

(* C14: the text the client receives in an error frame, an error event or  *)
(* a close reason is never the text of the internal exception.             *)

C14_SanitizedMessages ==
    \A i \in 1..Len(out) :
        (IsError(out[i]) \/ IsClose(out[i])) =>
            \A e \in ExcMessages : out[i].text # << e >>

(* C15: a session that get_session returned during the grace period after *)
(* its connection closed has its pending removal cancelled: it stays in    *)
(* the store.                                                              *)

C15_AccessCancelsRemoval ==
    \A sid \in accessed :
        sid \in sessions /\ cleanup[sid] \notin { "deleting", "done" }

(* C16: once _cleanup_session has completed for an id, the id is in        *)
(* neither the in-process map nor the cache, whatever get_session calls    *)
(* ran concurrently.                                                       *)

C16_DeletedFromBothTiers ==
    \A sid \in SessionIds :
        cleanup[sid] = "done" => (sid \notin sessions /\ sid \notin redis)

(* C17: every client acquired from a pool is returned to it exactly once   *)
(* on every exit path, so once all requests have finished every client of  *)
(* the pool is available and none remains leased.                          *)

Occurrences(client, q) == Cardinality({ i \in 1..Len(q) : q[i] = client })

\* no request, probe or context block is running and no close is under way
PoolQuiescent == closing = 0 /\ \A r \in Requesters : req[r].pc = "idle"

\* the pool was initialized by one successful call, never closed, and no
\* client was released twice
PoolUsedAsIntended ==
    initialized /\ poolLog = [inits |-> 1, closes |-> 0, repeats |-> 0]

C17_AllClientsReturned ==
    (PoolUsedAsIntended /\ PoolQuiescent) =>
        /\ Len(available) = pool_size
        /\ \A i \in 1..Len(pool_clients) : Occurrences(pool_clients[i], available) = 1

(* C18: release is idempotent: no client is in the available queue more   *)
(* than once, and no client is held by two acquirers at the same time.     *)

C18_ReleaseIdempotent ==
    /\ \A client \in Range(available) : Occurrences(client, available) = 1
    /\ \A r1, r2 \in Requesters :
          (r1 # r2 /\ req[r1].pc # "idle" /\ req[r2].pc # "idle") =>
              req[r1].client # req[r2].client

(* C19: initialize is idempotent: whatever initialize calls were made      *)
(* (repeated, retried after a connect failure, issued after close), the    *)
(* pool holds pool_size clients and the queue at most pool_size entries.   *)

C19_InitializeIdempotent ==
    /\ Len(pool_clients) <= pool_size
    /\ initialized => Len(pool_clients) = pool_size
    /\ poolLog.repeats = 0 => Len(available) <= pool_size

(* C20: close drains the pool: once close has completed, no client whose  *)
(* channel has been closed is in the available queue, so none can be       *)
(* acquired later.                                                         *)

C20_CloseDrains ==
    closing = 0 => \A client \in Range(available) : client \notin closed

----------------------------------------------------------------------------
(* The ASR bridge *)

\* the stream has ended: the client stopped writing or went away, or
\* StreamAudio has returned
StreamEnded == client_stream # "open" \/ handler = "done"

\* no worker waits for audio, and a fill_queue that was started has put its
\* end marker
WorkerReleased ==
    /\ handler # "config"
    /\ worker # "running"
    /\ fill_task # "off" => stream_closed

(* C21: once a stream has ended, for whatever reason, the end marker is put  *)
(* on the audio queue and the worker thread exits                            *)
C21_NoWorkerLeak == StreamEnded ~> WorkerReleased

\* the client went away in the middle of a turn, the generator was left at
\* its yield, and the worker has exited on the end marker
C21_Witness ==
    /\ cancelled
    /\ asr_stream = "suspended"
    /\ handler = "done"
    /\ worker = "exited"
    /\ stream_closed
    /\ audio_queue = <<>>

\* seconds of audio held in a queue
RECURSIVE Buffered(_)
Buffered(q) ==
    IF q = <<>> THEN 0
    ELSE (IF Head(q) = "audio" THEN ChunkSeconds ELSE 0) + Buffered(Tail(q))

(* C22: while a turn is being answered, the audio that has arrived for the   *)
(* session and waits to be recognized never exceeds two seconds              *)
C22_BufferBounded ==
    handler = "turn" => Buffered(input_queue) + Buffered(audio_queue) <= 2

\* the first server message, and the number of END_OF_TURN events
EndsOfTurn == Cardinality({ i \in 1..Len(events) : events[i] = "END_OF_TURN" })

(* C28: on a stream that opens with a config the first server message is    *)
(* LISTENING; END_OF_TURN is yielded at most once and, unless the call was   *)
(* cancelled, it is the last message of a finished stream; a stream the      *)
(* client has half-closed terminates                                         *)
C28_StreamBrackets ==
    /\ []((first_msg = "config" /\ events # <<>>) => events[1] = "LISTENING")
    /\ [](EndsOfTurn <= 1)
    /\ []((handler = "done" /\ ~cancelled) =>
             (EndsOfTurn = 1 /\ events[Len(events)] = "END_OF_TURN"))
    /\ (client_stream = "half_closed" ~> handler = "done")

\* a stream with one answered turn, half-closed by the client
C28_Witness ==
    /\ client_stream = "half_closed"
    /\ handler = "done"
    /\ events = << "LISTENING", "transcript", "PROCESSING", "LISTENING", "END_OF_TURN" >>

\* a stream that a provider error ended
C28_WitnessError ==
    /\ handler = "done"
    /\ ~cancelled
    /\ events = << "LISTENING", "transcript", "PROCESSING", "ERROR", "END_OF_TURN" >>

----------------------------------------------------------------------------
(* The reply cache of the LLM service *)

\* the call after call i was made with the same messages, the cache being
\* connected, unexpired and free of errors in both calls
RepeatedCall(i) ==
    /\ i + 1 <= Len(generations)
    /\ generations[i + 1].messages = generations[i].messages
    /\ generations[i].ok
    /\ llm_redis_client
    /\ ~generations[i].cache_error /\ ~generations[i + 1].cache_error
    /\ ~generations[i + 1].ttl_passed

ServedFromCache(first, second) ==
    /\ second.ok /\ second.cached
    /\ second.text = first.text
    /\ second.finish_reason = "cached"
    /\ second.tokens_generated = 0
    /\ ~second.posted

(* C23: a generate call that repeats the messages of a successful call is    *)
(* served from the cache, whatever text the first call returned: same text,  *)
(* finish_reason "cached", no generated tokens, no upstream request          *)
C23_CacheIdempotent ==
    \A i \in 1..Len(generations) :
        RepeatedCall(i) => ServedFromCache(generations[i], generations[i + 1])

\* the same, for the replies that are not empty
C23_NonEmptyRepliesCached ==
    \A i \in 1..Len(generations) :
        (RepeatedCall(i) /\ generations[i].text # <<>>) =>
            ServedFromCache(generations[i], generations[i + 1])

\* a failed cache read or write leaves the call what it is on a miss: the
\* upstream is asked and its reply, or its error, is the outcome
CacheFailureIsMiss ==
    \A i \in 1..Len(generations) :
        generations[i].cache_error => (generations[i].posted /\ ~generations[i].cached)

\* the handler leaves the wait for the config with a config received in time
ConfigReceived ==
    pc = "accept" /\ alive /\ clock < ConfigTimeout /\ pc' # "accept" /\ alive'

(* C24: a failing cache never surfaces to the caller: session creation     *)
(* in the gateway still succeeds, the session is INITIALIZED and the only   *)
(* frame sent is session_created.                                           *)

C24_CacheFailureSilent ==
    [][ConfigReceived => (state' = "INITIALIZED" /\ out' = << SessionCreated >>)]_vars

\* the handler takes a control frame of the given kind from an open transport
Processed(kind) ==
    /\ pc = "loop" /\ alive
    /\ inbox # <<>> /\ Head(inbox) = kind
    /\ inbox' = Tail(inbox)

\* the step posts a request to the LLM service
LlmRequested == Len(llmRequests') = Len(llmRequests) + 1

\* the message list the LLM service builds for the request just posted
RequestMessages == BuildMessages(llmRequests'[Len(llmRequests')], language)

(* C25: processing clear_history empties the session history and is        *)
(* answered with history_cleared; the message list of the next LLM request *)
(* is the system prompt followed by the new user turn, and nothing else.   *)

C25_ClearHistory ==
    /\ [][Processed("clear_history") =>
             /\ conversation_history' = <<>>
             /\ out' = << Control("history_cleared") >>]_vars
    /\ [][(conversation_history = <<>> /\ LlmRequested) =>
             \E t \in Transcripts :
                 RequestMessages = << SystemEntry(language), UserEntry(t) >>]_vars

\* the second turn of a connection whose first turn reached the LLM: its
\* request carries the new user turn only
C25_Witness ==
    /\ pc = "llm" /\ sentAudio = 2 /\ nchunks > 0
    /\ out = << Status("processing/asr"), Transcript(<<"h", "i">>, TRUE),
                Status("processing/llm") >>
    /\ llmRequests = << << UserEntry(<<"h", "i">>) >> >>

(* C26: change_language sets the session language to the requested code   *)
(* exactly when the code is supported; an unsupported code is answered     *)
(* with an error frame saying "Unsupported language", language, history    *)
(* and state stay as they were and the handler waits for the next frame.   *)

C26_WitnessChanged == pc = "asr" /\ language = "en-US" /\ live = 1

\* a status, transcript, reply-text or audio frame
IsTurnFrame(f) == f.type \in { "status", "transcript", "response_text", "audio" }

\* a ping has arrived and is the next frame the handler will take
PingArrived == pc # "off" /\ alive /\ inbox # <<>> /\ Head(inbox) = "ping"

(* C27: a ping is answered with exactly one pong, and between its arrival  *)
(* and the pong no status, transcript, reply-text or audio frame is sent,  *)
(* a ping that arrives during a turn included.                             *)

C27_PingImmediate ==
    /\ [][Processed("ping") => out' = << Control("pong") >>]_vars
    /\ [][PingArrived =>
             \A i \in 1..Len(out') :
                 IsTurnFrame(out'[i]) => (i <= Len(out) /\ out[i] = out'[i])]_vars

\* between turns the claim holds: the pong is the handler's next frame
C27_PongBetweenTurns == [][Processed("ping") => out' = << Control("pong") >>]_vars

HasTerminator(buf) == \E i \in 1..Len(buf) : buf[i] \in Terminators

\* index of the first terminator occurring in the buffer
FirstTerminator(buf) ==
    CHOOSE i \in 1..Len(buf) :
        buf[i] \in Terminators /\ \A j \in 1..(i - 1) : buf[j] \notin Terminators

\* the prefix including the first terminator, and what follows it
ReadySentence(buf) == SubSeq(buf, 1, FirstTerminator(buf))
Retained(buf) == SubSeq(buf, FirstTerminator(buf) + 1, Len(buf))

\* the chunk the step has just passed on to the client
ChunkReceived ==
    LET replies == { i \in 1..Len(out') : out'[i].type = "response_text" }
        last == CHOOSE i \in replies : \A j \in replies : j <= i
    IN out'[last].text

\* the text is handed to TTS in this step (blank text is not spoken)
SubmittedNow(text) ==
    ttsCalls' = IF strip(text) = <<>> THEN ttsCalls ELSE Append(ttsCalls, strip(text))

\* a chunk of the reply is received on an open transport
WsChunkStep == pc = "llm" /\ alive /\ nchunks' = nchunks + 1
GChunkStep == gpc = "llm" /\ nchunks' = nchunks + 1

\* the LLM stream ends without an error
WsStreamEnds ==
    /\ pc = "llm" /\ alive /\ nchunks' = nchunks /\ pc' \notin { "llm", "raise" }
    /\ \A i \in 1..Len(out') : ~IsError(out'[i])

(* C30: after every chunk, a buffer that contains a terminator is split    *)
(* at the first terminator occurring in it: the prefix with its terminator *)
(* goes to TTS and the rest stays in the buffer; a buffer without one is   *)
(* kept; at the end of the stream a non-blank remainder is submitted.      *)

C30_SplitAtFirstTerminator ==
    /\ [][WsChunkStep =>
             LET buf == text_buffer \o ChunkReceived IN
             IF HasTerminator(buf)
             THEN SubmittedNow(ReadySentence(buf)) /\ text_buffer' = Retained(buf)
             ELSE ttsCalls' = ttsCalls /\ text_buffer' = buf]_vars
    /\ [][GChunkStep =>
             LET buf == sentence_buffer \o ChunkReceived IN
             IF HasTerminator(buf)
             THEN SubmittedNow(ReadySentence(buf))
             ELSE ttsCalls' = ttsCalls]_vars
    /\ [][WsStreamEnds => SubmittedNow(text_buffer)]_vars

\* the WebSocket sentencer alone
C30_WsSplitAtFirstTerminator ==
    [][WsChunkStep =>
         LET buf == text_buffer \o ChunkReceived IN
         IF HasTerminator(buf)
         THEN SubmittedNow(ReadySentence(buf)) /\ text_buffer' = Retained(buf)
         ELSE ttsCalls' = ttsCalls /\ text_buffer' = buf]_vars

\* at the end of the stream the remainder is submitted
C30_RemainderSubmitted == [][WsStreamEnds => SubmittedNow(text_buffer)]_vars

(* C29: the load harness exits with 130 when it received SIGINT, and       *)
(* otherwise with 0 when the success rate of the run is at least 95% and   *)
(* with 1 when it is below.                                                *)

C29_ExitCodes ==
    load_pc = "exited" =>
        exit_code = IF sigint # "none" THEN 130
                    ELSE IF BelowThreshold(success_count, results) THEN 1 ELSE 0

\* a run that no signal interrupted exits by its success rate
C29_ThresholdExit ==
    (load_pc = "exited" /\ sigint = "none") =>
        exit_code = IF BelowThreshold(success_count, results) THEN 1 ELSE 0

\* nineteen successes out of twenty: exactly 95%
C29_AtThreshold ==
    load_pc = "exited" /\ results = 20 /\ success_count = 19 /\ exit_code = 0

\* a run that SIGINT ended, with every request successful
C29_InterruptedRunExitsZero ==
    load_pc = "exited" /\ sigint = "run" /\ results > 0 /\ exit_code = 0

(* The bridges between the blocking provider iterators and the event loop *)

\* StreamAudio has returned without being cancelled, after the recognizer
\* raised inside consume_riva_responses
AsrWorkerFailed == worker = "failed" /\ handler = "done" /\ ~cancelled

(* C31: an exception the provider's iterator raises inside the bridge worker *)
(* reaches the consumer as a raised error, so the stream that ends after it  *)
(* carries the ERROR event                                                   *)
C31_WorkerErrorRaised == AsrWorkerFailed => "ERROR" \in Range(events)

\* the synthesis half: the item synthesize_stream takes is the exception the
\* worker posted, and the turn ends with the ERROR event
C31_TtsErrorRaised ==
    [][(gpc = "tts" /\ tts_queue # <<>> /\ Head(tts_queue) = ExcItem
            /\ tts_queue' # tts_queue)
        => \E e \in ExcMessages : ErrorEvent(e) \in Range(out')]_vars

\* the recognizer raised before any result, and the stream ended as a normal
\* one does
C31_SilentEnd ==
    /\ AsrWorkerFailed
    /\ events = << "LISTENING" >> \o StreamFinally

\* the worker thread of the recognizer bridge has returned
WorkerReturned == worker \in { "exited", "failed" }

\* the end marker is in the queue once, as its last item
MarkerLast(q) ==
    /\ q # <<>>
    /\ q[Len(q)] = "none"
    /\ \A i \in 1..(Len(q) - 1) : q[i] # "none"

(* C32: on every run of the bridge (results, a provider exception, no item   *)
(* at all) the worker posts the end marker after its last item, and the loop *)
(* that consumes the queue ends                                              *)
C32_MarkerEndsLoop ==
    /\ [](worker \in { "off", "running" } => "none" \notin Range(transcript_queue))
    /\ [](WorkerReturned =>
            \/ MarkerLast(transcript_queue)
            \/ transcript_queue = <<>> /\ handler = "done")
    /\ WorkerReturned ~> handler = "done"

\* the recognizer produced nothing, the worker returned, and the loop ended
\* on the marker alone
C32_Witness ==
    /\ worker = "exited"
    /\ nresults = 0
    /\ ~cancelled
    /\ handler = "done"
    /\ transcript_queue = <<>>
    /\ events = << "LISTENING" >> \o StreamFinally

\* the synthesis bridge: what run_riva_synthesis leaves in the queue ends
\* with the end marker, which is nowhere else in it
C32_TtsMarkerLast ==
    tts_queue # <<>> =>
        /\ tts_queue[Len(tts_queue)] = NoneItem
        /\ \A i \in 1..(Len(tts_queue) - 1) : tts_queue[i] # NoneItem

\* the stream has submitted a sentence and awaits its synthesis
Synthesizing(s) == stream_pc[s] = "tts"

(* C33: whenever a turn submits a sentence for synthesis, the synthesis      *)
(* worker is eventually run and the turn completes, however many streams     *)
(* share the executor's threads                                              *)
C33_SynthesisRuns == \A s \in Streams : Synthesizing(s) ~> ~Synthesizing(s)

\* every thread of the executor runs a recognizer worker and a synthesis
\* waits in the executor's queue
C33_Starved ==
    /\ Cardinality(executing) = ExecutorThreads
    /\ \A c \in executing : c[1] = "asr"
    /\ \E s \in Streams : Call("tts", s) \in Range(executor_queue)

(* The message list of an LLM request *)

\* the n most recent entries of a history, in order
MostRecent(history, n) == SubSeq(history, Len(history) - n + 1, Len(history))

\* the message list of the call is the system prompt of the language followed
\* by the most recent min(len(history), 2N) entries
BuiltAsStated ==
    /\ build_result[1].role = "system"
    /\ build_result[1].content = << "H" >> <=> build_language \in HindiCodes
    /\ Tail(build_result) =
          MostRecent(build_history, Min({ Len(build_history), 2 * build_turns }))

(* C34: for any history and any non-negative max_history_turns N the message *)
(* list is the system prompt of the session language followed by exactly the *)
(* most recent min(len(history), 2N) entries, in order                       *)
C34_BuildMessages == build_result # <<>> => BuiltAsStated

\* the same for N >= 1
C34_PositiveTurns == (build_result # <<>> /\ build_turns >= 1) => BuiltAsStated

\* max_history_turns = 0 and a history of five entries: all five are sent
C34_ZeroTurnsSendsAll ==
    /\ build_result # <<>>
    /\ build_turns = 0
    /\ Len(build_history) = MaxHistory
    /\ Tail(build_result) = build_history

(* The lines of a streaming LLM response *)

\* the line is `data: [DONE]`
IsDoneLine(line) == line.prefix /\ line.data.kind = "done"

\* the content of a line that is a chunk of the expected shape, "" otherwise
StatedContent(line) ==
    IF /\ line.prefix
       /\ line.data.kind = "json"
       /\ "choices" \in DOMAIN line.data.value
       /\ line.data.value["choices"] # <<>>
       /\ "delta" \in DOMAIN line.data.value["choices"][1]
       /\ "content" \in DOMAIN line.data.value["choices"][1]["delta"]
    THEN line.data.value["choices"][1]["delta"]["content"]
    ELSE ""

RECURSIVE StatedYield(_)
\* the non-empty contents of a body's lines, in order, up to `data: [DONE]`
StatedYield(body) ==
    IF body = <<>> \/ IsDoneLine(Lines[Head(body)]) THEN <<>>
    ELSE LET content == StatedContent(Lines[Head(body)]) IN
         (IF content = "" THEN <<>> ELSE << content >>) \o StatedYield(Tail(body))

\* what has been yielded is what the lines read so far hold
YieldedInOrder ==
    stream_status \in { "reading", "ended" } =>
        yielded = StatedYield(SubSeq(sse_body, 1, sse_pos))

(* C35: a line without the "data: " prefix, a line that is not JSON and a    *)
(* JSON line without the choices/delta shape are skipped without ending or  *)
(* failing the stream; non-empty contents are yielded in arrival order;     *)
(* `data: [DONE]` ends the stream and nothing is yielded after it            *)
C35_LinesSkipped ==
    /\ stream_status # "failed"
    /\ YieldedInOrder
    /\ stream_status = "ended" => yielded = StatedYield(sse_body)

\* the same of the streams that do not fail
C35_UnlessRaised ==
    /\ YieldedInOrder
    /\ stream_status = "ended" => yielded = StatedYield(sse_body)

\* a stream fails only on a JSON line without a first choice
C35_RaisedOnShape ==
    stream_status = "failed" =>
        LET line == Lines[sse_body[sse_pos]] IN
           /\ line.prefix /\ line.data.kind = "json"
           /\ \/ "choices" \notin DOMAIN line.data.value
              \/ line.data.value["choices"] = <<>>

\* a content was yielded, and the stream failed on the line after it
C35_FailedAfterContent ==
    /\ stream_status = "failed"
    /\ yielded = << "a" >>
    /\ sse_pos = 2

(* The history after a failed turn *)

\* the handler is in a turn whose transcript has been recorded
TranscriptRecorded == pc \in { "llm", "tts" }

\* the step ends such a turn with an error frame
TurnFailed ==
    /\ TranscriptRecorded
    /\ \E e \in ExcMessages : out' = Append(out, ErrorFrame(e))

\* the last entry of the history is a user entry: the turn before was not
\* answered
Unanswered ==
    /\ conversation_history # <<>>
    /\ conversation_history[Len(conversation_history)].role = "user"

(* C36: a turn that ends with an error frame after its transcript was        *)
(* recorded leaves the history as it was right after the user entry was      *)
(* appended, and the next turn's LLM request carries that unanswered user    *)
(* entry followed by the new one                                             *)
C36_FailedTurnKeepsUserEntry ==
    /\ [][TurnFailed =>
             /\ conversation_history' = conversation_history
             /\ conversation_history = llmRequests[Len(llmRequests)]
             /\ Unanswered]_vars
    /\ [][(pc = "asr" /\ Unanswered /\ LlmRequested) =>
             \E t \in Transcripts :
                /\ llmRequests'[Len(llmRequests')] =
                      Append(conversation_history, UserEntry(t))
                /\ LET sent == RequestMessages IN
                      SubSeq(sent, Len(sent) - 1, Len(sent)) =
                         << conversation_history[Len(conversation_history)],
                            UserEntry(t) >>]_vars

\* the request of the turn after a failed first turn: two user entries
C36_Witness ==
    /\ pc = "llm"
    /\ Len(conversation_history) = 2
    /\ conversation_history[1].role = "user"
    /\ conversation_history[2].role = "user"
    /\ llmRequests = << conversation_history >>


(* The synthesis bridge of the gateway *)

(* C37: no audio chunk of a sentence is delivered until the synthesis       *)
(* worker has finished that sentence, and the chunks are then yielded in    *)
(* the order in which they were produced                                     *)
C37_AudioAfterSynthesis ==
    /\ synth_yielded # <<>> => synth_worker = "returned"
    /\ synth_yielded = [i \in 1..Len(synth_yielded) |-> i]
    /\ synth_consumer = "ended" => Len(synth_yielded) = synth_produced

\* the second sentence is being synthesized: its chunks are posted and none
\* is yielded
C37_WitnessHeld ==
    /\ synth_sentence = 2
    /\ synth_worker = "running"
    /\ synth_produced = MaxProduced
    /\ synth_yielded = <<>>

\* a sentence of three chunks has been yielded whole
C37_Witness ==
    /\ synth_consumer = "ended"
    /\ synth_yielded = << 1, 2, 3 >>

(* The in-process session map after the connection *)

\* sessions in the map for which no _cleanup_session task was created
Unscheduled == { sid \in sessions : cleanup[sid] = "unscheduled" }

(* C38: every session that create_session put in the in-process map is      *)
(* removed after its connection ended: whatever the outcome of the handler, *)
(* the deferred cleanup of the session has been scheduled when it returns   *)
C38_CleanupScheduled == pc = "done" => Unscheduled = {}

\* the handler has returned after the cache write of create_session failed:
\* the session is in the map and no task will remove it
C38_Leaked ==
    /\ pc = "done"
    /\ state = "none"
    /\ Unscheduled # {}
    /\ \E e \in ExcMessages : out = << CloseFrame(4001, e) >>

\* the handlers that got their session back from create_session have
\* scheduled its cleanup when they return
C38_ScheduledWhenReturned ==
    (pc = "done" /\ session_id # 0) => cleanup[session_id] = "sleeping"

\* the send of session_created failed, and the cleanup is scheduled
C38_SendFailedScheduled ==
    /\ pc = "done" /\ ~alive
    /\ state = "CLOSED"
    /\ \A i \in 1..Len(out) : out[i] # SessionCreated
    /\ sentAudio = 0
    /\ cleanup[session_id] = "sleeping"

(* A gRPC stream that does not begin with a config *)

(* C39: when the first message of a stream is an audio chunk instead of a   *)
(* config, the server proceeds: the pipeline runs on the audio, that first  *)
(* chunk included, and no ERROR event is emitted                             *)
C39_ProceedsWithoutConfig ==
    first_msg = "audio" =>
        /\ "ERROR" \notin Range(events)
        /\ worker # "off"
        /\ asr_stream # "off"

\* the first message was an audio chunk: the stream is over, with no
\* recognizer started and the ERROR event sent
C39_Refused ==
    /\ first_msg = "audio"
    /\ handler = "done"
    /\ worker = "off"
    /\ events = << "ERROR" >> \o StreamFinally

(* The virtual users of a load-test run *)

\* run() has returned
RunReturned == load_pc = "exited"

(* C40: during a run the number of live virtual users never exceeds         *)
(* max_users and equals the number of worker tasks, and once run() has      *)
(* returned (after the three phases, a shutdown signal in any of them, or   *)
(* cancellation) every worker task has terminated and the worker list is    *)
(* empty                                                                     *)
C40_WorkersBounded ==
    /\ workers <= MaxUsers
    /\ workers = Len(worker_tasks)
    /\ RunReturned => (workers = 0 /\ LiveTasks = {})

\* run() has returned after a shutdown signal during the hold, with every
\* worker task cancelled
C40_Witness ==
    /\ RunReturned
    /\ sigint = "run"
    /\ workers = 0
    /\ \A id \in 1..MaxUsers : task_state[id] = "cancelled"

\* run() was left by a cancellation that arrived in its finally: the lists
\* are not cleared and a task has yet to end
C40_CancelledInFinally ==
    /\ load_pc = "cancelled"
    /\ workers = MaxUsers
    /\ LiveTasks # {}
====
